---- MODULE Spec2Model ----
(***************************************************************************)
(* Loan-underwriting pipeline: the bank-statement analytics engine         *)
(* (bank_statement_analytics_service.py) and the risk scoring engine       *)
(* (risk_analysis_service.py).                                             *)
(*                                                                         *)
(* Representation.                                                         *)
(*   - Risk scores are integers in tenths of a point (60.0 is 600).        *)
(*   - Money amounts are integers in thousandths of a currency unit        *)
(*     (1 rupee is 1000), so that rounding to 2 places does something.     *)
(*   - A Python value of varying type is a record [kind, v].               *)
(*   - Text is a sequence of one-character strings.                        *)
(***************************************************************************)
EXTENDS Integers, Sequences, FiniteSets, TLC

VARIABLES
    pc,                 \* position of the operation under way
    anomalies,          \* the anomaly collection (four severity buckets)
    validation_result,  \* the validation record handed to the risk engine
    llm_configured,     \* RiskAnalysisService.llm_client is set
    risk_score,         \* outcome of _calculate_risk_score
    risk_level,         \* outcome of _get_risk_level
    llm_reasoning,      \* outcome of _get_llm_reasoning, or the None record
    recommendations,    \* outcome of _generate_recommendations
    transactions,       \* the transaction rows under analysis
    account_info,       \* statement header: period and declared balances
    customer_profile,   \* the customer profile found for the account
    analytics,          \* outputs of the bank-statement analytics
    bank_anomalies,     \* the buckets _convert_bank_analytics_to_anomalies fills
    document_type,      \* type of the document under analysis
    document_id,        \* its id, "" for None
    all_user_documents, \* the user's aggregation: documents by type and by id
    cross_doc_anomalies, \* outcome of _check_cross_document_consistency
    documents,          \* the documents collection, by document_id
    risk_analyses,      \* the risk_analyses collection, in stored order
    summary,            \* the response to the rollup request
    extraction_results, \* the extraction_results collection, in stored order
    tasks,              \* the requests and the background task under way
    last_write,         \* who updated the document's risk fields last
    amount_value,       \* the value handed to _parse_amount
    parsed_amount              \* what _parse_amount made of it

riskVars == <<anomalies, validation_result, llm_configured, risk_score,
              risk_level, llm_reasoning, recommendations>>
bankVars == <<transactions, account_info, customer_profile, analytics, bank_anomalies>>
crossVars == <<document_type, document_id, all_user_documents, cross_doc_anomalies>>
storeVars == <<documents, risk_analyses>>
pipeVars == <<extraction_results, tasks, last_write>>
parseVars == <<amount_value, parsed_amount>>
auxVars == <<crossVars, storeVars, summary, pipeVars, parseVars>>
vars == <<pc, riskVars, bankVars, auxVars>>

----------------------------------------------------------------------------
(* Generic helpers *)

Min(a, b) == IF a <= b THEN a ELSE b
Max(a, b) == IF a >= b THEN a ELSE b
Abs(a) == IF a >= 0 THEN a ELSE 0 - a

RECURSIVE Gcd(_, _)
Gcd(a, b) == IF b = 0 THEN a ELSE Gcd(b, a % b)

RECURSIVE SumSeq(_)
SumSeq(s) == IF s = <<>> THEN 0 ELSE Head(s) + SumSeq(Tail(s))

RECURSIVE Repeat(_, _)
Repeat(x, n) == IF n <= 0 THEN <<>> ELSE <<x>> \o Repeat(x, n - 1)

(* an amount of whole currency units, in thousandths *)
Rupees(n) == n * 1000

(* Python values of varying type *)
PyNum(n) == [kind |-> "num", v |-> n]
PyNone == [kind |-> "none", v |-> 0]
PyAbsent == [kind |-> "absent", v |-> 0]     \* the key is missing
PyStr == [kind |-> "str", v |-> 0]           \* a non-numeric string
PyHuge == [kind |-> "huge", v |-> 0]         \* an int too large for float()
PyNaN == [kind |-> "nan", v |-> 0]           \* float('nan')
PyList(n) == [kind |-> "list", v |-> n]      \* a list of n entries

----------------------------------------------------------------------------
(* Bounds of the model *)

MaxPerBucket == 2      \* anomalies per severity bucket in the inputs

----------------------------------------------------------------------------
(* Risk scoring engine: risk_analysis_service.py *)

Anomaly(t, sev) == [type |-> t, severity |-> sev]
CountType(items, t) == Cardinality({i \in 1..Len(items) : items[i].type = t})
Bucket(items) == [islist |-> TRUE, items |-> items]
NotAList == [islist |-> FALSE, items |-> <<>>]

EmptyAnomalies ==
    [isdict |-> TRUE,
     critical_anomalies |-> Bucket(<<>>), high_anomalies |-> Bucket(<<>>),
     medium_anomalies |-> Bucket(<<>>), low_anomalies |-> Bucket(<<>>),
     anomaly_count |-> 0]

NotADictAnomalies == [EmptyAnomalies EXCEPT !.isdict = FALSE]

DefaultValidationResult ==
    [isdict |-> TRUE, quality_score |-> PyNum(100),
     errors |-> PyList(0), warnings |-> PyList(0)]

NotADictValidationResult == [DefaultValidationResult EXCEPT !.isdict = FALSE]

(* self.risk_thresholds, in tenths *)
ThresholdMedium == 300
ThresholdHigh == 600
ThresholdCritical == 800

(* len(x) of a bucket after the isinstance(list) fallback to [] *)
BucketLen(anoms, k) ==
    IF anoms.isdict /\ anoms[k].islist THEN Len(anoms[k].items) ELSE 0

(* float(quality_score) followed by the clamp to [0, 100]:
   [exc |-> the conversion raised something other than ValueError/TypeError,
    v |-> the quality score used] *)
QualityOf(vr) ==
    LET q == IF vr.isdict THEN vr.quality_score ELSE PyNum(100)
    IN  CASE q.kind = "num" -> [exc |-> FALSE, v |-> Max(0, Min(100, q.v))]
          [] q.kind = "absent" -> [exc |-> FALSE, v |-> 100]
          [] q.kind \in {"none", "str", "list"} -> [exc |-> FALSE, v |-> 100]
          [] q.kind = "nan" -> [exc |-> FALSE, v |-> 100]
          [] q.kind = "huge" -> [exc |-> TRUE, v |-> 0]
          [] OTHER -> [exc |-> TRUE, v |-> 0]

(* the body of the try block: [exc, v] with v the final score in tenths *)
ScoreBody(anoms, vr) ==
    LET critical_points == BucketLen(anoms, "critical_anomalies") * 600
        high_points == BucketLen(anoms, "high_anomalies") * 300
        medium_points == BucketLen(anoms, "medium_anomalies") * 100
        low_points == BucketLen(anoms, "low_anomalies") * 20
        q == QualityOf(vr)
        quality_penalty == (100 - q.v) * 2
        base_score == critical_points + high_points + medium_points
                      + low_points + quality_penalty
    IN  [exc |-> q.exc, v |-> Min(1000, Max(0, base_score))]

SafeDefaultScore == 500

CalculateRiskScoreUnguarded(anoms, vr) ==
    LET b == ScoreBody(anoms, vr)
    IN  [raised |-> b.exc, v |-> b.v]

CalculateRiskScoreWeights(anoms, vr) ==
    LET b == ScoreBody([anoms EXCEPT !.high_anomalies = anoms.critical_anomalies,
                                     !.critical_anomalies = anoms.high_anomalies], vr)
    IN  IF b.exc THEN [raised |-> FALSE, v |-> SafeDefaultScore]
        ELSE [raised |-> FALSE, v |-> b.v]

(* _calculate_risk_score: the try block and its except Exception *)
CalculateRiskScore(anoms, vr) ==
    LET b == ScoreBody(anoms, vr)
    IN  IF b.exc THEN [raised |-> FALSE, v |-> SafeDefaultScore]
        ELSE [raised |-> FALSE, v |-> b.v]

GetRiskLevelExclusive(score) ==
    LET s == Max(0, Min(1000, score))
    IN  IF s > ThresholdCritical THEN "CRITICAL"
        ELSE IF s > ThresholdHigh THEN "HIGH"
        ELSE IF s > ThresholdMedium THEN "MEDIUM"
        ELSE "LOW"

(* _get_risk_level on a numeric score *)
GetRiskLevel(score) ==
    LET s == Max(0, Min(1000, score))
    IN  IF s >= ThresholdCritical THEN "CRITICAL"
        ELSE IF s >= ThresholdHigh THEN "HIGH"
        ELSE IF s >= ThresholdMedium THEN "MEDIUM"
        ELSE "LOW"

----------------------------------------------------------------------------
(* Text: a sequence of one-character strings *)

UpperChar(c) ==
    CASE c = "a" -> "A" [] c = "b" -> "B" [] c = "c" -> "C" [] c = "d" -> "D"
      [] c = "e" -> "E" [] c = "f" -> "F" [] c = "g" -> "G" [] c = "h" -> "H"
      [] c = "i" -> "I" [] c = "j" -> "J" [] c = "k" -> "K" [] c = "l" -> "L"
      [] c = "m" -> "M" [] c = "n" -> "N" [] c = "o" -> "O" [] c = "p" -> "P"
      [] c = "q" -> "Q" [] c = "r" -> "R" [] c = "s" -> "S" [] c = "t" -> "T"
      [] c = "u" -> "U" [] c = "v" -> "V" [] c = "w" -> "W" [] c = "x" -> "X"
      [] c = "y" -> "Y" [] c = "z" -> "Z" [] OTHER -> c

(* str.upper() *)
Upper(s) == [i \in 1..Len(s) |-> UpperChar(s[i])]

(* needle in hay *)
Contains(hay, needle) ==
    \E i \in 1..(Len(hay) - Len(needle) + 1) :
        SubSeq(hay, i, i + Len(needle) - 1) = needle

(* any(keyword in text for keyword in keywords) *)
AnyKeyword(text, keywords) ==
    \E k \in 1..Len(keywords) : Contains(text, keywords[k])

RECURSIVE LStrip(_)
LStrip(s) == IF s # <<>> /\ Head(s) = " " THEN LStrip(Tail(s)) ELSE s

RECURSIVE RStrip(_)
RStrip(s) ==
    IF s # <<>> /\ s[Len(s)] = " " THEN RStrip(SubSeq(s, 1, Len(s) - 1)) ELSE s

(* str.strip() *)
Strip(s) == RStrip(LStrip(s))

(* s[:n] *)
Truncate(s, n) == SubSeq(s, 1, Min(n, Len(s)))

RECURSIVE SqueezeSpaces(_)
SqueezeSpaces(s) ==
    IF Len(s) < 2 THEN s
    ELSE IF s[1] = " " /\ s[2] = " " THEN SqueezeSpaces(Tail(s))
    ELSE <<s[1]>> \o SqueezeSpaces(Tail(s))

(* " ".join(s.split()) *)
NormalizeSpaces(s) == SqueezeSpaces(Strip(s))

(* self.salary_keywords *)
SalaryKeywords ==
    << <<"S", "A", "L">>,
       <<"S", "A", "L", "A", "R", "Y">>,
       <<"P", "A", "Y", "R", "O", "L", "L">>,
       <<"W", "A", "G", "E", "S">>,
       <<"P", "A", "Y">>,
       <<"R", "E", "M", "I", "T", "T", "A", "N", "C", "E">>,
       <<"S", "A", "L", "A", "R", "Y", " ", "C", "R", "E", "D", "I", "T">>,
       <<"S", "A", "L", " ", "C", "R", "E", "D", "I", "T">>,
       <<"S", "A", "L", "A", "R", "Y", " ", "P", "A", "Y", "M", "E", "N", "T">>,
       <<"S", "A", "L", "A", "R", "Y", " ", "T", "R", "A", "N", "S", "F", "E", "R">>,
       <<"S", "A", "L", "A", "R", "Y", " ", "N", "E", "F", "T">>,
       <<"S", "A", "L", "A", "R", "Y", " ", "R", "T", "G", "S">>,
       <<"S", "A", "L", "A", "R", "Y", " ", "I", "M", "P", "S">>,
       <<"S", "A", "L", "A", "R", "Y", " ", "U", "P", "I">> >>

(* self.emi_keywords *)
EmiKeywords ==
    << <<"E", "M", "I">>,
       <<"L", "O", "A", "N">>,
       <<"N", "A", "C", "H">>,
       <<"E", "C", "S">>,
       <<"A", "U", "T", "O", " ", "D", "E", "B", "I", "T">> >>

(* self.lender_keywords *)
LenderKeywords ==
    << <<"B", "A", "J", "A", "J">>,
       <<"H", "D", "F", "C">>,
       <<"I", "C", "I", "C", "I">>,
       <<"S", "B", "I">>,
       <<"A", "X", "I", "S">>,
       <<"K", "O", "T", "A", "K">>,
       <<"Y", "E", "S", " ", "B", "A", "N", "K">>,
       <<"F", "U", "L", "L", "E", "R", "T", "O", "N">>,
       <<"H", "O", "M", "E", " ", "C", "R", "E", "D", "I", "T">>,
       <<"C", "A", "P", "I", "T", "A", "L", " ", "F", "I", "R", "S", "T">>,
       <<"A", "D", "I", "T", "Y", "A", " ", "B", "I", "R", "L", "A">>,
       <<"M", "O", "N", "E", "Y", " ", "V", "I", "E", "W">>,
       <<"S", "M", "A", "R", "T", "C", "O", "I", "N">>,
       <<"C", "A", "S", "H", "E">>,
       <<"K", "I", "S", "A", "N">>,
       <<"F", "E", "D", "E", "R", "A", "L">>,
       <<"P", "N", "B">>,
       <<"N", "B", "F", "C">> >>

(* self.cc_keywords *)
CcKeywords ==
    << <<"C", "R", "E", "D", "I", "T", " ", "C", "A", "R", "D">>,
       <<"C", "C", " ", "P", "A", "Y", "M", "E", "N", "T">>,
       <<"C", "R", "E", "D", "I", "T", " ", "C", "A", "R", "D", " ", "P", "A", "Y", "M", "E", "N", "T">>,
       <<"C", "A", "R", "D", " ", "P", "A", "Y", "M", "E", "N", "T">>,
       <<"V", "I", "S", "A">>,
       <<"M", "A", "S", "T", "E", "R", "C", "A", "R", "D">>,
       <<"A", "M", "E", "X">>,
       <<"R", "U", "P", "A", "Y">> >>

(* the word tested next to the keyword list when logging and when filtering
   the candidates of the pattern fallback: "SALARY" in d or "SAL" in d *)
HasSalaryWord(descUpper) ==
    Contains(descUpper, <<"S", "A", "L", "A", "R", "Y">>)
        \/ Contains(descUpper, <<"S", "A", "L">>)

----------------------------------------------------------------------------
(* Dates: a transaction_date or statement period string.
   kind "date": a YYYY-MM-DD string; "none": None or missing;
   "bad": a string in another format, which neither parser accepts *)

Date(y, m, d) == [kind |-> "date", y |-> y, m |-> m, d |-> d]
DateNone == [kind |-> "none", y |-> 0, m |-> 0, d |-> 0]
DateBad == [kind |-> "bad", y |-> 0, m |-> 0, d |-> 0]

IsLeap(y) == (y % 4 = 0 /\ y % 100 # 0) \/ y % 400 = 0

DaysInMonth(y, m) ==
    IF m = 2 THEN (IF IsLeap(y) THEN 29 ELSE 28)
    ELSE IF m \in {4, 6, 9, 11} THEN 30 ELSE 31

RECURSIVE DaysBeforeMonth(_, _)
DaysBeforeMonth(y, m) ==
    IF m <= 1 THEN 0 ELSE DaysBeforeMonth(y, m - 1) + DaysInMonth(y, m - 1)

(* datetime.toordinal(): days since 0001-01-01, plus one *)
DayNumber(dt) ==
    LET y1 == dt.y - 1
    IN  365 * y1 + (y1 \div 4) - (y1 \div 100) + (y1 \div 400)
        + DaysBeforeMonth(dt.y, dt.m) + dt.d

(* the position of a calendar month: "%Y-%m" keys compare like this number *)
MonthIndex(dt) == 12 * dt.y + (dt.m - 1)

(* the order of the strings that sorted(key=transaction_date) compares:
   a string of another format such as "05/01/2025" sorts before "2025-..." *)
DateSortKey(dt) == IF dt.kind = "date" THEN DayNumber(dt) ELSE 0

(* an absent text, and the four empty buckets the conversion starts from *)
NoText == [kind |-> "none", text |-> <<>>]
NoBankAnomalies == [critical |-> <<>>, high |-> <<>>, medium |-> <<>>, low |-> <<>>]

----------------------------------------------------------------------------
(* Transaction rows and amounts: bank_statement_analytics_service.py *)

Txn(id, date, desc, type, credit, debit, balance) ==
    [transaction_id |-> id, transaction_date |-> date, description |-> desc,
     transaction_type |-> type, credit_amount |-> credit, debit_amount |-> debit,
     balance_after_transaction |-> balance]

(* _parse_amount of a number, of None and of a string float() rejects *)
ParseAmount(value) == IF value.kind = "num" THEN value.v ELSE 0

(* _parse_amount in full. A float is kept as mantissa and scale (m / 10^s)
   with no trailing zero in the mantissa, so that 123456.00 and 123456 are
   one value. *)
PyText(chars) == [kind |-> "text", v |-> 0, text |-> chars]

RECURSIVE Normalized(_, _)
Normalized(m, s) ==
    IF s > 0 /\ m % 10 = 0 THEN Normalized(m \div 10, s - 1)
    ELSE [raised |-> FALSE, kind |-> "float", m |-> m, s |-> s]

Float(m, s) == Normalized(m, s)
FloatZero == Float(0, 0)
FloatNaN == [raised |-> FALSE, kind |-> "nan", m |-> 0, s |-> 0]
FloatRaised == [raised |-> TRUE, kind |-> "OverflowError", m |-> 0, s |-> 0]
FloatRejected == [raised |-> TRUE, kind |-> "ValueError", m |-> 0, s |-> 0]

Digits == {"0", "1", "2", "3", "4", "5", "6", "7", "8", "9"}

DigitValue(c) ==
    CASE c = "0" -> 0 [] c = "1" -> 1 [] c = "2" -> 2 [] c = "3" -> 3
      [] c = "4" -> 4 [] c = "5" -> 5 [] c = "6" -> 6 [] c = "7" -> 7
      [] c = "8" -> 8 [] c = "9" -> 9 [] OTHER -> 0

RECURSIVE DigitsValue(_, _)
DigitsValue(text, acc) ==
    IF text = <<>> THEN acc
    ELSE DigitsValue(Tail(text), acc * 10 + DigitValue(Head(text)))

(* float(text) for a text of digits, sign, point and letters: a decimal
   numeral with at least one digit, or nan; anything else is rejected *)
FloatOfText(text) ==
    LET signed == text # <<>> /\ Head(text) \in {"-", "+"}
        negative == signed /\ Head(text) = "-"
        body == IF signed THEN Tail(text) ELSE text
        points == {i \in 1..Len(body) : body[i] = "."}
        point == IF points = {} THEN Len(body) + 1
                 ELSE CHOOSE i \in points : \A j \in points : i <= j
        whole == SubSeq(body, 1, point - 1)
        fraction == SubSeq(body, point + 1, Len(body))
        numeral == /\ \A i \in 1..Len(whole) : whole[i] \in Digits
                   /\ \A i \in 1..Len(fraction) : fraction[i] \in Digits
                   /\ Len(whole) + Len(fraction) >= 1
        magnitude == DigitsValue(whole \o fraction, 0)
    IN  IF Upper(body) = <<"N", "A", "N">> THEN FloatNaN
        ELSE IF numeral
        THEN Float(IF negative THEN 0 - magnitude ELSE magnitude, Len(fraction))
        ELSE FloatRejected

(* value.replace(',', '').replace('₹', '').replace('$', '').replace(' ', '').strip() *)
CleanedAmount(text) ==
    Strip(SelectSeq(text, LAMBDA c : c \notin {",", "₹", "$", " "}))

(* _parse_amount: None, a number (float(value), unguarded), a string
   (cleaned, then float() under try), anything else *)
ParseAmountValue(value) ==
    CASE value.kind = "none" -> FloatZero
      [] value.kind = "num" -> Float(value.v, 3)
      [] value.kind = "huge" -> FloatRaised
      [] value.kind = "nan" -> FloatNaN
      [] value.kind = "text" ->
            LET f == FloatOfText(CleanedAmount(value.text))
            IN  IF f.raised THEN FloatZero ELSE f
      [] OTHER -> FloatZero

(* bool(value) *)
Truthy(value) ==
    \/ value.kind = "num" /\ value.v # 0
    \/ value.kind \in {"str", "numstr"}
    \/ value.kind = "list" /\ value.v > 0

(* value or 0 *)
OrZero(value) == IF Truthy(value) THEN value ELSE PyNum(0)

(* round(x, 2) of an amount in thousandths: to the nearest multiple of 10,
   an exact tie going to the even hundredth *)
Round2(a) ==
    LET r == a % 10
        base == a - r
    IN  IF r < 5 THEN base
        ELSE IF r > 5 THEN base + 10
        ELSE IF (base \div 10) % 2 = 0 THEN base ELSE base + 10

DescKeyLen == 100

(* the composite key of a transaction *)
DedupKey(txn) ==
    << txn.transaction_date,
       Truncate(Strip(txn.description), DescKeyLen),
       Round2(ParseAmount(OrZero(txn.credit_amount))),
       Round2(ParseAmount(OrZero(txn.debit_amount))) >>

RECURSIVE DedupFrom(_, _)
DedupFrom(txns, seen) ==
    IF txns = <<>> THEN <<>>
    ELSE LET k == DedupKey(Head(txns))
         IN  IF k \in seen THEN DedupFrom(Tail(txns), seen)
             ELSE <<Head(txns)>> \o DedupFrom(Tail(txns), seen \cup {k})

RECURSIVE DedupDropOneFrom(_, _, _)
DedupDropOneFrom(txns, seen, dropped) ==
    IF txns = <<>> THEN <<>>
    ELSE LET k == DedupKey(Head(txns))
         IN  IF k \in seen /\ ~dropped THEN DedupDropOneFrom(Tail(txns), seen, TRUE)
             ELSE <<Head(txns)>> \o DedupDropOneFrom(Tail(txns), seen \cup {k}, dropped)

DedupDropOne(txns) == DedupDropOneFrom(txns, {}, FALSE)

(* the seen-set loop that keeps the first transaction of every key *)
Dedup(txns) == DedupFrom(txns, {})

(* sorted(txns, key=lambda x: x.get("transaction_date", "")): a stable sort;
   comparing None with a string, or with None, raises TypeError *)
SortRaises(txns) ==
    Len(txns) >= 2 /\ \E i \in 1..Len(txns) : txns[i].transaction_date.kind = "none"

RECURSIVE InsertByDate(_, _)
InsertByDate(sorted, t) ==
    IF sorted = <<>> THEN <<t>>
    ELSE IF DateSortKey(sorted[Len(sorted)].transaction_date)
                <= DateSortKey(t.transaction_date)
         THEN Append(sorted, t)
         ELSE Append(InsertByDate(SubSeq(sorted, 1, Len(sorted) - 1), t),
                     sorted[Len(sorted)])

RECURSIVE SortByDateFrom(_, _)
SortByDateFrom(txns, acc) ==
    IF txns = <<>> THEN acc
    ELSE SortByDateFrom(Tail(txns), InsertByDate(acc, Head(txns)))

SortByDate(txns) == SortByDateFrom(txns, <<>>)

----------------------------------------------------------------------------
(* Transaction-sequence validation *)

SequenceTolerance == 1000      \* 1 currency unit

RECURSIVE KeepInPeriod(_, _, _)
KeepInPeriod(txns, from, to) ==
    IF txns = <<>> THEN <<>>
    ELSE LET t == Head(txns)
             d == t.transaction_date
             keep == /\ d.kind = "date"
                     /\ DayNumber(d) >= DayNumber(from)
                     /\ (to.kind = "none" \/ DayNumber(d) <= DayNumber(to))
         IN  (IF keep THEN <<t>> ELSE <<>>) \o KeepInPeriod(Tail(txns), from, to)

(* the filter to the statement period; any strptime failure leaves the list
   as it was *)
FilterToPeriod(txns, statement_from, statement_to) ==
    IF statement_from.kind = "none" THEN txns
    ELSE IF \/ statement_from.kind = "bad"
            \/ statement_to.kind = "bad"
            \/ \E i \in 1..Len(txns) : txns[i].transaction_date.kind = "bad"
         THEN txns
         ELSE KeepInPeriod(txns, statement_from, statement_to)

RECURSIVE TotalCredits(_)
TotalCredits(txns) ==
    IF txns = <<>> THEN 0
    ELSE LET c == Head(txns).credit_amount
             parsed == ParseAmount(c)
         IN  (IF c.kind # "none" /\ parsed > 0 THEN parsed ELSE 0)
             + TotalCredits(Tail(txns))

RECURSIVE TotalDebits(_)
TotalDebits(txns) ==
    IF txns = <<>> THEN 0
    ELSE LET d == Head(txns).debit_amount
             parsed == ParseAmount(d)
         IN  (IF d.kind # "none" /\ parsed > 0 THEN parsed ELSE 0)
             + TotalDebits(Tail(txns))

(* the opening balance: [raised, value] *)
ResolveOpening(unique, info) ==
    IF Truthy(info.opening_balance)
    THEN [raised |-> FALSE, value |-> PyNum(ParseAmount(info.opening_balance))]
    ELSE IF SortRaises(unique) THEN [raised |-> TRUE, value |-> PyNone]
    ELSE LET first == SortByDate(unique)[1]
             balance == ParseAmount(OrZero(first.balance_after_transaction))
             credit == ParseAmount(OrZero(first.credit_amount))
             debit == ParseAmount(OrZero(first.debit_amount))
         IN  [raised |-> FALSE,
              value |-> IF balance # 0 THEN PyNum(balance - credit + debit)
                        ELSE PyNone]

(* the closing balance: [raised, value] *)
ResolveClosing(unique, info) ==
    IF Truthy(info.closing_balance)
    THEN [raised |-> FALSE, value |-> PyNum(ParseAmount(info.closing_balance))]
    ELSE IF SortRaises(unique) THEN [raised |-> TRUE, value |-> PyNone]
    ELSE LET sorted == SortByDate(unique)
         IN  [raised |-> FALSE,
              value |-> PyNum(ParseAmount(
                           OrZero(sorted[Len(sorted)].balance_after_transaction)))]

NoValidation(deduped, unique) ==
    [raised |-> FALSE, deduped |-> deduped, unique_txns |-> unique,
     opening_balance |-> PyNone, closing_balance |-> PyNone,
     total_credits |-> 0, total_debits |-> 0, errors |-> <<>>]

(* the comparison of the difference with the tolerance, and the one error *)
SequenceErrorsStrict(opening, credits, debits, closing) ==
    LET expected == opening + credits - debits
        difference == Abs(expected - closing)
    IN  IF difference >= SequenceTolerance
        THEN << [expected_balance |-> expected, actual_balance |-> closing,
                 difference |-> difference, opening_balance |-> opening,
                 total_credits |-> credits, total_debits |-> debits] >>
        ELSE <<>>

SequenceErrors(opening, credits, debits, closing) ==
    LET expected == opening + credits - debits
        difference == Abs(expected - closing)
    IN  IF difference > SequenceTolerance
        THEN << [expected_balance |-> expected, actual_balance |-> closing,
                 difference |-> difference, opening_balance |-> opening,
                 total_credits |-> credits, total_debits |-> debits] >>
        ELSE <<>>

(* _validate_transaction_sequence *)
ValidateTransactionSequence(txns, statement_from, info) ==
    LET deduped == Dedup(txns)
        unique == FilterToPeriod(deduped, statement_from, info.statement_period_to)
        opening == ResolveOpening(unique, info)
        closing == ResolveClosing(unique, info)
        credits == TotalCredits(unique)
        debits == TotalDebits(unique)
    IN  IF txns = <<>> THEN NoValidation(<<>>, <<>>)
        ELSE IF unique = <<>> THEN NoValidation(deduped, unique)
        ELSE IF opening.raised
             THEN [NoValidation(deduped, unique) EXCEPT !.raised = TRUE]
        ELSE IF opening.value.kind = "none" THEN NoValidation(deduped, unique)
        ELSE IF closing.raised
             THEN [NoValidation(deduped, unique) EXCEPT !.raised = TRUE]
        ELSE [raised |-> FALSE, deduped |-> deduped, unique_txns |-> unique,
              opening_balance |-> opening.value, closing_balance |-> closing.value,
              total_credits |-> credits, total_debits |-> debits,
              errors |-> SequenceErrors(opening.value.v, credits, debits,
                                        closing.value.v)]

(* _detect_fraud_anomalies, part 2: one CRITICAL anomaly for all the errors *)
SequenceFraudAnomalies(validation) ==
    IF validation.errors # <<>>
    THEN << [type |-> "TRANSACTION_SEQUENCE_ERROR", severity |-> "CRITICAL",
             errors |-> validation.errors] >>
    ELSE <<>>

(* str.lower() of the anomaly types and severities in use *)
LowerName(t) ==
    CASE t = "TRANSACTION_SEQUENCE_ERROR" -> "transaction_sequence_error"
      [] t = "ROUND_TRIPPING" -> "round_tripping"
      [] t = "INCOME_INSTABILITY" -> "income_instability"
      [] t = "CRITICAL" -> "critical"
      [] t = "HIGH" -> "high"
      [] t = "MEDIUM" -> "medium"
      [] t = "LOW" -> "low"
      [] OTHER -> t

RECURSIVE SelectSeverity(_, _)
SelectSeverity(fraud, sev) ==
    IF fraud = <<>> THEN <<>>
    ELSE LET a == Head(fraud)
             s == LowerName(a.severity)
             bucket == IF s \in {"critical", "high", "medium"} THEN s ELSE "low"
         IN  (IF bucket = sev
              THEN <<[type |-> LowerName(a.type), severity |-> s,
                      error_details |-> IF a.type = "TRANSACTION_SEQUENCE_ERROR"
                                        THEN a.errors ELSE <<>>]>>
              ELSE <<>>) \o SelectSeverity(Tail(fraud), sev)

(* _convert_bank_analytics_to_anomalies, the fraud anomalies *)
ConvertFraudAnomalies(fraud) ==
    [critical |-> SelectSeverity(fraud, "critical"),
     high |-> SelectSeverity(fraud, "high"),
     medium |-> SelectSeverity(fraud, "medium"),
     low |-> SelectSeverity(fraud, "low")]

----------------------------------------------------------------------------
(* Round-tripping detection *)

LargeCreditThreshold == 50000000    \* 50,000 currency units
RoundTripWindow == 50
RoundTripDays == 5
RoundTripPercent == 10

IsLargeCredit(txn) ==
    /\ txn.transaction_type = "CREDIT"
    /\ Truthy(txn.credit_amount)
    /\ ParseAmount(txn.credit_amount) > LargeCreditThreshold
    /\ txn.transaction_date.kind = "date"

(* the tests a later transaction must pass to be the matching debit:
   0 < days_diff <= 5 and abs(credit - debit) / credit * 100 < 10, the
   latter with both sides multiplied by credit / 10 *)
IsSimilarDebit(credit_txn, next_txn) ==
    LET credit_amount == ParseAmount(credit_txn.credit_amount)
        debit_amount == ParseAmount(next_txn.debit_amount)
        days_diff == DayNumber(next_txn.transaction_date)
                        - DayNumber(credit_txn.transaction_date)
    IN  /\ next_txn.transaction_type = "DEBIT"
        /\ Truthy(next_txn.debit_amount)
        /\ next_txn.transaction_date.kind = "date"
        /\ 0 < days_diff /\ days_diff <= RoundTripDays
        /\ credit_amount > 0
        /\ Abs(credit_amount - debit_amount) * (100 \div RoundTripPercent)
              < credit_amount

(* range(i+1, min(i+50, len(sorted_txns))) for the 0-based position i-1 *)
WindowUnbounded(sorted, i) == (i + 1)..Len(sorted)

Window(sorted, i) == (i + 1)..Min(i + RoundTripWindow - 1, Len(sorted))

(* the instance recorded for the credit at position i, if any: the first
   similar debit of the window *)
InstancesAt(sorted, i) ==
    LET hits == {j \in Window(sorted, i) : IsSimilarDebit(sorted[i], sorted[j])}
    IN  IF IsLargeCredit(sorted[i]) /\ hits # {}
        THEN LET j == CHOOSE k \in hits : \A h \in hits : k <= h
             IN  << [credit_date |-> sorted[i].transaction_date,
                     credit_amount |-> ParseAmount(sorted[i].credit_amount),
                     credit_description |-> sorted[i].description,
                     debit_date |-> sorted[j].transaction_date,
                     debit_amount |-> ParseAmount(sorted[j].debit_amount),
                     debit_description |-> sorted[j].description,
                     days_diff |-> DayNumber(sorted[j].transaction_date)
                                    - DayNumber(sorted[i].transaction_date)] >>
        ELSE <<>>

RECURSIVE InstancesFrom(_, _)
InstancesFrom(sorted, i) ==
    IF i > Len(sorted) THEN <<>>
    ELSE InstancesAt(sorted, i) \o InstancesFrom(sorted, i + 1)

(* _detect_round_tripping, for a list sorted() accepts *)
DetectRoundTripping(txns) == InstancesFrom(SortByDate(txns), 1)

----------------------------------------------------------------------------
(* _detect_fraud_anomalies *)

InstabilityFloor == 5000    \* a consistency score of 50, in hundredths

RoundTripFraudAnomalies(instances) ==
    IF instances # <<>>
    THEN << [type |-> "ROUND_TRIPPING", severity |-> "HIGH",
             instances |-> instances] >>
    ELSE <<>>

InstabilityFraudAnomalies(consistency_score) ==
    IF consistency_score.kind = "num" /\ consistency_score.v < InstabilityFloor
    THEN << [type |-> "INCOME_INSTABILITY", severity |-> "MEDIUM",
             consistency_score |-> consistency_score] >>
    ELSE <<>>

FraudRiskLevel(found) ==
    IF \E i \in 1..Len(found) : found[i].severity = "CRITICAL" THEN "CRITICAL"
    ELSE IF \E i \in 1..Len(found) : found[i].severity = "HIGH" THEN "HIGH"
    ELSE IF \E i \in 1..Len(found) : found[i].severity = "MEDIUM" THEN "MEDIUM"
    ELSE "LOW"

DetectFraudAnomalies(txns, consistency_score, statement_from, info) ==
    LET instances == DetectRoundTripping(txns)
        validation == ValidateTransactionSequence(txns, statement_from, info)
        found == RoundTripFraudAnomalies(instances)
                    \o SequenceFraudAnomalies(validation)
                    \o InstabilityFraudAnomalies(consistency_score)
    IN  IF SortRaises(txns) \/ validation.raised
        THEN [raised |-> TRUE, instances |-> <<>>,
              validation |-> NoValidation(<<>>, <<>>),
              total_anomalies |-> 0, anomalies |-> <<>>, risk_level |-> "LOW"]
        ELSE [raised |-> FALSE, instances |-> instances, validation |-> validation,
              total_anomalies |-> Len(found), anomalies |-> found,
              risk_level |-> FraudRiskLevel(found)]

----------------------------------------------------------------------------
(* Income analysis: _analyze_income and _detect_salary_gaps *)

(* strftime("%Y-%m") of a date: the year and the month *)
MonthKey(dt) == <<dt.y, dt.m>>

NextMonth(month) ==
    IF month[2] = 12 THEN <<month[1] + 1, 1>> ELSE <<month[1], month[2] + 1>>

MonthLeq(a, b) == a[1] < b[1] \/ (a[1] = b[1] /\ a[2] <= b[2])

(* the while loop from period_start.replace(day=1) to period_end.replace(day=1) *)
RECURSIVE ExpectedMonths(_, _)
ExpectedMonths(current_month, end_month) ==
    IF MonthLeq(current_month, end_month)
    THEN <<current_month>> \o ExpectedMonths(NextMonth(current_month), end_month)
    ELSE <<>>

(* the date n days before a date: end - timedelta(days=n) *)
DaysBefore(dt, n) ==
    CHOOSE r \in {Date(y, m, d) : y \in {dt.y - 1, dt.y}, m \in 1..12, d \in 1..31} :
        /\ r.d <= DaysInMonth(r.y, r.m)
        /\ DayNumber(r) = DayNumber(dt) - n

SalaryLookbackDays == 180

RECURSIVE LatestDate(_)
LatestDate(dates) ==
    IF Len(dates) = 1 THEN dates[1]
    ELSE LET rest == LatestDate(Tail(dates))
         IN  IF DayNumber(dates[1]) >= DayNumber(rest) THEN dates[1] ELSE rest

(* the value handed back when no salary date is available, or none inside
   the period: has_gaps True and an empty missing_months *)
NoSalaryGaps ==
    [has_gaps |-> TRUE, missing_months |-> <<>>, expected_months |-> 0,
     total_salaries_in_period |-> 0, total_salary_transactions |-> 0,
     period |-> <<DateNone, DateNone>>]

(* _detect_salary_gaps *)
DetectSalaryGaps(salary_dates, statement_from, statement_to) ==
    IF salary_dates = <<>>
    THEN NoSalaryGaps
    ELSE
    LET given == statement_from.kind = "date" /\ statement_to.kind = "date"
        period_end == IF given THEN statement_to ELSE LatestDate(salary_dates)
        period_start == IF given THEN statement_from
                        ELSE DaysBefore(period_end, SalaryLookbackDays)
        relevant == SelectSeq(salary_dates,
                        LAMBDA d : /\ DayNumber(period_start) <= DayNumber(d)
                                   /\ DayNumber(d) <= DayNumber(period_end))
        months_with_salary == {MonthKey(relevant[i]) : i \in 1..Len(relevant)}
        expected == ExpectedMonths(MonthKey(period_start), MonthKey(period_end))
        missing == SelectSeq(expected, LAMBDA month : month \notin months_with_salary)
    IN  IF relevant = <<>>
        THEN NoSalaryGaps
        ELSE [has_gaps |-> Len(missing) > 0, missing_months |-> missing,
              expected_months |-> Len(expected),
              total_salaries_in_period |-> Cardinality(months_with_salary),
              total_salary_transactions |-> Len(relevant),
              period |-> <<period_start, period_end>>]

(* the test of both passes of _analyze_income *)
IsSalaryCredit(txn) ==
    /\ txn.transaction_type = "CREDIT"
    /\ Truthy(txn.credit_amount)
    /\ AnyKeyword(Upper(txn.description), SalaryKeywords)

(* the key of the second pass *)
SalaryKey(txn) ==
    << txn.transaction_date, ParseAmount(txn.credit_amount),
       NormalizeSpaces(Upper(txn.description)) >>

RECURSIVE UniqueSalariesFrom(_, _)
UniqueSalariesFrom(txns, seen) ==
    IF txns = <<>> THEN <<>>
    ELSE LET txn == Head(txns)
         IN  IF IsSalaryCredit(txn) /\ txn.transaction_date.kind = "date"
                /\ SalaryKey(txn) \notin seen
             THEN <<txn>> \o UniqueSalariesFrom(Tail(txns), seen \cup {SalaryKey(txn)})
             ELSE UniqueSalariesFrom(Tail(txns), seen)

(* the second pass, which replaces the lists of the first (every salary
   credit, dated or not): the transactions are scanned again, a salary credit
   without a date that parses is passed over, and so is a repeated key *)
UniqueSalaryData(txns) == UniqueSalariesFrom(txns, {})

(* a / b <= c / d for b, d > 0 and a, c >= 0, by the integer parts and then
   the inverted remainders, so that no product is formed *)
RECURSIVE FracLeq(_, _, _, _)
FracLeq(a, b, c, d) ==
    IF a \div b # c \div d THEN a \div b < c \div d
    ELSE IF a % b = 0 THEN TRUE
    ELSE IF c % d = 0 THEN FALSE
    ELSE FracLeq(d, c % d, b, a % b)

(* the largest c of lo..hi whose square of 2c - 1 is at most
   4 * 10^8 * num / den: the hundredth nearest to 100 * sqrt(num / den) *)
RECURSIVE NearestHundredth(_, _, _, _)
NearestHundredth(num, den, lo, hi) ==
    IF lo >= hi THEN lo
    ELSE LET mid == (lo + hi + 1) \div 2
         IN  IF FracLeq((2 * mid - 1) * (2 * mid - 1), num, 400000000, den)
             THEN NearestHundredth(num, den, mid, hi)
             ELSE NearestHundredth(num, den, lo, mid - 1)

RECURSIVE GcdSeq(_)
GcdSeq(amounts) == IF amounts = <<>> THEN 0 ELSE Gcd(Head(amounts), GcdSeq(Tail(amounts)))

(* salary_consistency_score, in hundredths: 100 unless there are two or more
   salaries with a mean and a standard deviation other than 0, and then
   round(max(0, 100 - cv), 2) with cv = stdev / mean * 100. With n salaries
   of sum S and sum of squares Q, (stdev / mean)^2 is
   n (n Q - S^2) / ((n - 1) S^2), whatever the unit of the amounts *)
SalaryConsistencyScore(salary_credits) ==
    LET n == Len(salary_credits)
        unit == GcdSeq(salary_credits)
        units == [i \in 1..n |-> salary_credits[i] \div unit]
        S == SumSeq(units)
        Q == SumSeq([i \in 1..n |-> units[i] * units[i]])
        num == n * (n * Q - S * S)
        den == (n - 1) * S * S
    IN  IF n > 1 /\ unit # 0 /\ S # 0 /\ num # 0
        THEN PyNum(10000 - NearestHundredth(num, den, 0, 10000))
        ELSE PyNum(10000)

(* round(statistics.mean(amounts), 2), in thousandths: the hundredth
   nearest to sum / n *)
RoundedMean(amounts) ==
    ((SumSeq(amounts) + 5 * Len(amounts)) \div (10 * Len(amounts))) * 10

ApplyTo(items, Op(_)) == [i \in 1..Len(items) |-> Op(items[i])]

SalaryAmount(txn) == ParseAmount(txn.credit_amount)
SalaryDate(txn) == txn.transaction_date

(* all_credits of the first pass *)
IsCredit(txn) == txn.transaction_type = "CREDIT" /\ Truthy(txn.credit_amount)

(* the candidates of the pattern fallback: the credits naming SALARY or SAL *)
SalaryCandidateCredits(txns) ==
    SelectSeq(txns, LAMBDA txn :
        /\ IsCredit(txn)
        /\ \/ Contains(Upper(txn.description), <<"S","A","L","A","R","Y">>)
           \/ Contains(Upper(txn.description), <<"S","A","L">>))

(* the guard of the fallback: no salary by keyword and two credits or more *)
FallbackEntered(txns) ==
    /\ SelectSeq(txns, IsSalaryCredit) = <<>>
    /\ Len(SelectSeq(txns, IsCredit)) >= 2

(* abs(amount - group_avg) / min(amount, group_avg) * 100 <= 20 *)
WithinTwentyPercent(amount, group_avg) ==
    /\ Min(amount, group_avg) > 0
    /\ Abs(amount - group_avg) * 100 <= 20 * Min(amount, group_avg)

(* amount_groups: every credit joins the first group whose first amount is
   within 20% of its own, or starts a group *)
RECURSIVE AmountGroupsFrom(_, _)
AmountGroupsFrom(credits, groups) ==
    IF credits = <<>> THEN groups
    ELSE LET amount == ParseAmount(Head(credits).credit_amount)
             fits == {g \in 1..Len(groups) :
                        WithinTwentyPercent(amount,
                            ParseAmount(groups[g][1].credit_amount))}
         IN  IF fits = {}
             THEN AmountGroupsFrom(Tail(credits), Append(groups, <<Head(credits)>>))
             ELSE LET g == CHOOSE x \in fits : \A y \in fits : x <= y
                  IN  AmountGroupsFrom(Tail(credits),
                        [groups EXCEPT ![g] = Append(@, Head(credits))])

RECURSIVE AmountsOfGroups(_)
AmountsOfGroups(groups) ==
    IF groups = <<>> THEN <<>>
    ELSE (IF Len(Head(groups)) >= 2
          THEN [i \in 1..Len(Head(groups)) |->
                    ParseAmount(Head(groups)[i].credit_amount)]
          ELSE <<>>) \o AmountsOfGroups(Tail(groups))

(* _detect_salary_by_pattern: the dated credits in date order, grouped by
   amount; the amounts of every group of two or more *)
DetectSalaryByPattern(credits) ==
    LET dated == SelectSeq(credits, LAMBDA c : c.transaction_date.kind = "date")
    IN  IF Len(credits) < 2 \/ Len(dated) < 2 THEN <<>>
        ELSE AmountsOfGroups(AmountGroupsFrom(SortByDate(dated), <<>>))

(* salary_credits as the fallback leaves it, before the second pass *)
PatternSalaryCredits(txns) ==
    IF FallbackEntered(txns) /\ SalaryCandidateCredits(txns) # <<>>
    THEN DetectSalaryByPattern(SalaryCandidateCredits(txns))
    ELSE <<>>

(* _analyze_income: the salary list, its average and the gap analysis.  The
   pattern fallback cannot change the outcome: "SAL" is itself a keyword, so
   it has no candidates when the first pass found nothing, and lines 607-608
   overwrite both lists from the second pass. *)
AnalyzeIncome(txns, statement_from, statement_to) ==
    LET unique == UniqueSalaryData(txns)
        salary_credits == ApplyTo(unique, SalaryAmount)
        salary_dates == ApplyTo(unique, SalaryDate)
        gaps == DetectSalaryGaps(salary_dates, statement_from, statement_to)
    IN  [salary_detected |-> Len(salary_credits) > 0,
         total_salary_credits |-> Len(salary_credits),
         average_monthly_salary |->
            IF salary_credits # <<>> /\ SumSeq(salary_credits) # 0
            THEN PyNum(RoundedMean(salary_credits)) ELSE PyNone,
         salary_amounts |-> salary_credits,
         salary_consistency_score |-> SalaryConsistencyScore(salary_credits),
         salary_dates |-> salary_dates,
         salary_gaps |-> gaps,
         missing_salary_months |-> gaps.missing_months]

VariationPercentOfTwo == 30
VariationPercent == 50

RECURSIVE MinSeq(_)
MinSeq(s) == IF Len(s) = 1 THEN Head(s) ELSE Min(Head(s), MinSeq(Tail(s)))
RECURSIVE MaxSeq(_)
MaxSeq(s) == IF Len(s) = 1 THEN Head(s) ELSE Max(Head(s), MaxSeq(Tail(s)))

(* (max - min) / min * 100 > threshold, the threshold being 30 for two
   salaries and 50 for more *)
HighSalaryVariation(salary_amounts) ==
    /\ Len(salary_amounts) >= 2
    /\ MinSeq(salary_amounts) > 0
    /\ LET unit == GcdSeq(salary_amounts)
           lowest == MinSeq(salary_amounts) \div unit
           highest == MaxSeq(salary_amounts) \div unit
           threshold == IF Len(salary_amounts) = 2 THEN VariationPercentOfTwo
                        ELSE VariationPercent
       IN  (highest - lowest) * 100 > threshold * lowest

(* _convert_bank_analytics_to_anomalies, the income instability check: one
   medium anomaly when the consistency score is below 50 or the variation is
   high *)
ConvertIncomeInstability(income_analysis) ==
    IF \/ income_analysis.salary_consistency_score.v < InstabilityFloor
       \/ HighSalaryVariation(income_analysis.salary_amounts)
    THEN << [type |-> "income_instability", field |-> "salary",
             severity |-> "medium"] >>
    ELSE <<>>

(* _convert_bank_analytics_to_anomalies, the salary gaps *)
ConvertSalaryGaps(income_analysis) ==
    IF income_analysis.salary_gaps.has_gaps
    THEN << [type |-> "salary_gaps", severity |-> "medium",
             missing_months |-> income_analysis.salary_gaps.missing_months] >>
    ELSE <<>>

----------------------------------------------------------------------------
(* Obligation analysis: _analyze_obligations and _extract_lender_name *)

UnknownLender == <<"U","N","K","N","O","W","N"," ","L","E","N","D","E","R">>

RECURSIVE FirstKeyword(_, _, _)
FirstKeyword(text, keywords, default) ==
    IF keywords = <<>> THEN default
    ELSE IF Contains(text, Head(keywords)) THEN Head(keywords)
    ELSE FirstKeyword(text, Tail(keywords), default)

ExtractLenderName(description) ==
    FirstKeyword(Upper(description), LenderKeywords, UnknownLender)

IsDebit(txn) == txn.transaction_type = "DEBIT" /\ Truthy(txn.debit_amount)

IsCcPayment(txn) == IsDebit(txn) /\ AnyKeyword(Upper(txn.description), CcKeywords)

(* a debit that is no credit-card payment and names an EMI word or a lender *)
IsEmiDebit(txn) ==
    /\ IsDebit(txn)
    /\ ~AnyKeyword(Upper(txn.description), CcKeywords)
    /\ \/ AnyKeyword(Upper(txn.description), EmiKeywords)
       \/ AnyKeyword(Upper(txn.description), LenderKeywords)

EmiOf(txn) ==
    [date |-> txn.transaction_date, amount |-> ParseAmount(txn.debit_amount),
     description |-> txn.description,
     lender_name |-> ExtractLenderName(Upper(txn.description)),
     transaction_id |-> txn.transaction_id]

(* round(float(amount)): the nearest whole unit, a tie going to the even one *)
RoundUnit(a) ==
    LET r == a % 1000
        base == a - r
    IN  IF r < 500 THEN base
        ELSE IF r > 500 THEN base + 1000
        ELSE IF (base \div 1000) % 2 = 0 THEN base ELSE base + 1000

EmiKey(emi) ==
    <<emi.date, RoundUnit(emi.amount), NormalizeSpaces(Upper(emi.description))>>

RECURSIVE UniqueEmisFrom(_, _, _)
UniqueEmisFrom(emis, seen_emi_ids, seen_emi_keys) ==
    IF emis = <<>> THEN <<>>
    ELSE LET emi == Head(emis)
         IN  IF emi.transaction_id # ""
             THEN IF emi.transaction_id \in seen_emi_ids
                  THEN UniqueEmisFrom(Tail(emis), seen_emi_ids, seen_emi_keys)
                  ELSE <<emi>> \o UniqueEmisFrom(Tail(emis),
                                     seen_emi_ids \cup {emi.transaction_id},
                                     seen_emi_keys)
             ELSE IF EmiKey(emi) \in seen_emi_keys
                  THEN UniqueEmisFrom(Tail(emis), seen_emi_ids, seen_emi_keys)
                  ELSE <<emi>> \o UniqueEmisFrom(Tail(emis), seen_emi_ids,
                                     seen_emi_keys \cup {EmiKey(emi)})

GroupKey(emi) == <<emi.lender_name, RoundUnit(emi.amount)>>

RECURSIVE GroupKeysFrom(_, _)
GroupKeysFrom(emis, seen) ==
    IF emis = <<>> THEN <<>>
    ELSE IF GroupKey(Head(emis)) \in seen THEN GroupKeysFrom(Tail(emis), seen)
    ELSE <<GroupKey(Head(emis))>>
            \o GroupKeysFrom(Tail(emis), seen \cup {GroupKey(Head(emis))})

MinOccurrences == 2

RECURSIVE RecurringFrom(_, _)
RecurringFrom(keys, emis) ==
    IF keys = <<>> THEN <<>>
    ELSE LET group == SelectSeq(emis, LAMBDA emi : GroupKey(emi) = Head(keys))
             amounts == {group[i].amount : i \in 1..Len(group)}
         IN  (IF Len(group) >= MinOccurrences /\ Cardinality(amounts) = 1
              THEN << [lender_name |-> group[1].lender_name,
                       emi_amount |-> group[1].amount,
                       occurrences |-> Len(group),
                       dates |-> [i \in 1..Len(group) |-> group[i].date]] >>
              ELSE <<>>) \o RecurringFrom(Tail(keys), emis)

(* the amount of a group times its occurrences *)
EmiAmountTimesOccurrences(recurring) == recurring.emi_amount * recurring.occurrences

(* r["emi_amount"] in the sum of the recurring EMIs *)
EmiAmount(recurring) == recurring.emi_amount

(* _analyze_obligations: the EMI rows, the recurring groups, their total and
   the credit-card payments *)
AnalyzeObligations(txns) ==
    LET emis == ApplyTo(SelectSeq(txns, IsEmiDebit), EmiOf)
        unique_emis == UniqueEmisFrom(emis, {}, {})
        recurring_emis == RecurringFrom(GroupKeysFrom(unique_emis, {}), unique_emis)
        cc_payments == SelectSeq(txns, IsCcPayment)
    IN  [total_emi_transactions |-> Len(unique_emis),
         detected_emis |-> unique_emis,
         recurring_emis |-> recurring_emis,
         total_monthly_emi_obligation |->
            Round2(SumSeq(ApplyTo(recurring_emis, EmiAmount))),
         credit_card_payments |-> cc_payments,
         total_cc_payments |-> Len(cc_payments)]

----------------------------------------------------------------------------
(* _convert_bank_analytics_to_anomalies: the declared loans against the EMIs *)

DeclaredNo == {<<"N","O">>, <<"N">>, <<"F","A","L","S","E">>, <<"0">>}
DeclaredYes == {<<"Y","E","S">>, <<"Y">>, <<"T","R","U","E">>, <<"1">>}

(* str(existing_loan).strip().upper() if existing_loan else None; the
   profile record of the analytics is empty when no profile was found *)
ExistingLoanNormalized(profile) ==
    IF profile.found /\ profile.existing_loan.kind = "str"
       /\ profile.existing_loan.text # <<>>
    THEN [kind |-> "str", text |-> Upper(Strip(profile.existing_loan.text))]
    ELSE NoText

UndeclaredLoans(count, total) ==
    [type |-> "undeclared_loans", severity |-> "critical",
     emi_count |-> count, total_emi_amount |-> total]

HiddenDebt(count, total) ==
    [type |-> "hidden_debt", severity |-> "high",
     emi_count |-> count, total_emi_amount |-> total]

ObligationAmount(emi) == emi.amount

ConvertObligationsRecurringOnly(profile, obligations) ==
    LET normalized == ExistingLoanNormalized(profile)
        recurring_emis == obligations.recurring_emis
        total_emi == obligations.total_monthly_emi_obligation
    IN  IF normalized.kind = "str" /\ normalized.text \in DeclaredNo
        THEN IF recurring_emis # <<>>
             THEN [NoBankAnomalies EXCEPT
                     !.critical = <<UndeclaredLoans(Len(recurring_emis), total_emi)>>]
             ELSE NoBankAnomalies
        ELSE IF recurring_emis # <<>>
                /\ ~(normalized.kind = "str" /\ normalized.text \in DeclaredYes)
        THEN [NoBankAnomalies EXCEPT
                !.high = <<HiddenDebt(Len(recurring_emis), total_emi)>>]
        ELSE NoBankAnomalies

ConvertObligations(profile, obligations) ==
    LET normalized == ExistingLoanNormalized(profile)
        all_emi_transactions == obligations.detected_emis
        recurring_emis == obligations.recurring_emis
        total_emi == obligations.total_monthly_emi_obligation
    IN  IF normalized.kind = "str" /\ normalized.text \in DeclaredNo
        THEN IF all_emi_transactions # <<>>
             THEN [NoBankAnomalies EXCEPT
                     !.critical = <<UndeclaredLoans(
                                      Len(all_emi_transactions),
                                      SumSeq(ApplyTo(all_emi_transactions,
                                                     ObligationAmount)))>>]
             ELSE IF recurring_emis # <<>>
             THEN [NoBankAnomalies EXCEPT
                     !.critical = <<UndeclaredLoans(Len(recurring_emis), total_emi)>>]
             ELSE NoBankAnomalies
        ELSE IF recurring_emis # <<>>
                /\ ~(normalized.kind = "str" /\ normalized.text \in DeclaredYes)
        THEN [NoBankAnomalies EXCEPT
                !.high = <<HiddenDebt(Len(recurring_emis), total_emi)>>]
        ELSE NoBankAnomalies

----------------------------------------------------------------------------
(* _check_cross_document_consistency (risk_analysis_service.py): identity
   mismatches across the user's documents, and the comparison of the first
   payslip's salary with the first bank statement's first salary credit.    *)

PyNumStr(n) == [kind |-> "numstr", v |-> n]   \* a string float() parses
PyDict(net, gross) == [kind |-> "dict", v |-> 0, net_salary |-> net, gross_salary |-> gross]

(* value is not None, for the value of dict.get(key) *)
IsNotNone(value) == value.kind \notin {"none", "absent"}

(* f"{value:,.2f}" raises for anything that is not a number *)
FormatRaises(value) == value.kind # "num"

(* float(value): a number or a numeric string converts, anything else
   raises ValueError or TypeError *)
ToFloat(value) ==
    IF value.kind \in {"num", "numstr"}
    THEN [raised |-> FALSE, v |-> value.v]
    ELSE [raised |-> TRUE, v |-> 0]

PayslipFields(net, gross, salary) ==
    [net_salary |-> net, gross_salary |-> gross, salary |-> salary]
NoFields == PayslipFields(PyAbsent, PyAbsent, PyAbsent)
NoStoredAnalytics == [kind |-> "absent"]
BankAnalytics(amounts) ==
    [kind |-> "analytics", income_analysis |-> [salary_amounts |-> amounts]]
AnalyticsError == [kind |-> "error"]
AnalyticsRaised == [kind |-> "raised"]

(* all_user_documents.get("documents", {}).get(doc_id, {}) *)
EmptyDocument ==
    [document_type |-> "UNKNOWN", extracted_fields |-> NoFields,
     analytics |-> NoStoredAnalytics, name_mismatch |-> FALSE, dob_mismatch |-> FALSE]
GetDocument(aud, doc_id) ==
    IF doc_id \in DOMAIN aud.documents THEN aud.documents[doc_id] ELSE EmptyDocument

PayslipDocument(fields, mismatch) ==
    [document_type |-> "PAYSLIP", extracted_fields |-> fields,
     analytics |-> NoStoredAnalytics, name_mismatch |-> mismatch, dob_mismatch |-> FALSE]
BankStatementDocument(stored) ==
    [document_type |-> "BANK_STATEMENT", extracted_fields |-> NoFields,
     analytics |-> stored, name_mismatch |-> FALSE, dob_mismatch |-> FALSE]
OtherPayslip ==
    PayslipDocument(PayslipFields(PyNum(Rupees(40000)), PyNum(Rupees(45000)), PyAbsent), FALSE)

DocumentIds == {"p1", "p2", "b1"}
UserDocuments(payslips, statements, fields, stored, mismatch) ==
    [documents_by_type |-> [PAYSLIP |-> payslips, BANK_STATEMENT |-> statements],
     documents |-> [id \in DocumentIds |->
                        CASE id = "p1" -> PayslipDocument(fields, mismatch)
                          [] id = "p2" -> OtherPayslip
                          [] OTHER -> BankStatementDocument(stored)]]

NoDocuments ==
    [documents_by_type |-> [PAYSLIP |-> <<>>, BANK_STATEMENT |-> <<>>],
     documents |-> <<>>]

NoCrossDoc ==
    [raised |-> FALSE, critical |-> <<>>, high |-> <<>>, medium |-> <<>>, low |-> <<>>]
CrossDocRaised ==
    [raised |-> TRUE, critical |-> <<>>, high |-> <<>>, medium |-> <<>>, low |-> <<>>]

(* the name and date-of-birth loop over every document of the aggregation;
   the outcome of each comparison with the current document is carried by
   the document *)
IdentityAnomaliesOf(doc) ==
    (IF doc.name_mismatch
     THEN <<[type |-> "name_mismatch_across_documents", severity |-> "critical"]>>
     ELSE <<>>)
    \o (IF doc.dob_mismatch
        THEN <<[type |-> "dob_mismatch_across_documents", severity |-> "critical"]>>
        ELSE <<>>)

RECURSIVE IdentityAnomalies(_, _)
IdentityAnomalies(aud, ids) ==
    IF ids = <<>> THEN <<>>
    ELSE IdentityAnomaliesOf(GetDocument(aud, Head(ids)))
         \o IdentityAnomalies(aud, Tail(ids))

(* the salary taken from the payslip's fields: top-level net_salary, else
   top-level gross_salary, else the nested salary object; the top-level
   branches format the value as a number on the way *)
PickPayslipSalary(payslip_fields) ==
    IF IsNotNone(payslip_fields.net_salary)
    THEN [raised |-> FormatRaises(payslip_fields.net_salary),
          value |-> payslip_fields.net_salary]
    ELSE IF IsNotNone(payslip_fields.gross_salary)
    THEN [raised |-> FormatRaises(payslip_fields.gross_salary),
          value |-> payslip_fields.gross_salary]
    ELSE LET salary_data == payslip_fields.salary
         IN  IF salary_data.kind = "dict"
             THEN [raised |-> FALSE,
                   value |-> IF Truthy(salary_data.net_salary)
                             THEN salary_data.net_salary
                             ELSE salary_data.gross_salary]
             ELSE IF salary_data.kind = "num"
             THEN [raised |-> FALSE, value |-> salary_data]
             ELSE [raised |-> FALSE, value |-> PyNone]

(* the try block: float(payslip_salary), then float(gross_salary) when
   gross_salary is truthy; a ValueError or TypeError of either leaves
   payslip_salary None *)
CheckedPayslipSalary(value, gross_salary) ==
    IF ToFloat(value).raised THEN PyNone
    ELSE IF Truthy(gross_salary) /\ ToFloat(gross_salary).raised THEN PyNone
    ELSE PyNum(ToFloat(value).v)

(* the analytics compared against: the stored one, or the outcome of
   analyze_bank_statement when none is stored; None when that raised *)
ResolveBankAnalytics(stored, fetched) ==
    IF stored.kind = "analytics" THEN stored ELSE fetched

SalaryAmountsOf(bank_analytics) ==
    IF bank_analytics.kind = "analytics"
    THEN bank_analytics.income_analysis.salary_amounts
    ELSE <<>>

OverStatedIncome(payslip_id, bank_stmt_id, payslip_salary, bank_salary_amount) ==
    LET difference == payslip_salary - bank_salary_amount
    IN  [type |-> "over_stated_income", field |-> "salary", severity |-> "high",
         document_comparison |->
             [payslip_document_id |-> payslip_id,
              bank_statement_document_id |-> bank_stmt_id,
              payslip_salary |-> payslip_salary,
              bank_statement_salary |-> bank_salary_amount,
              difference |-> difference,
              \* difference / bank_salary_amount * 100, kept as the fraction
              difference_percentage |->
                  IF bank_salary_amount > 0
                  THEN [num |-> difference, den |-> bank_salary_amount]
                  ELSE [num |-> 0, den |-> 1]]]

(* the over-stated income block: [raised, high] *)
CheckIncome(doc_type, aud, fetched) ==
    LET payslip_docs == aud.documents_by_type.PAYSLIP
        bank_statement_docs == aud.documents_by_type.BANK_STATEMENT
        should_check_income == doc_type \in {"PAYSLIP", "BANK_STATEMENT"}
    IN  IF ~(should_check_income /\ payslip_docs # <<>> /\ bank_statement_docs # <<>>)
        THEN [raised |-> FALSE, high |-> <<>>]
        ELSE
        LET payslip_id == Head(payslip_docs)
            bank_stmt_id == Head(bank_statement_docs)
            payslip_fields == GetDocument(aud, payslip_id).extracted_fields
            picked == PickPayslipSalary(payslip_fields)
            payslip_salary == CheckedPayslipSalary(picked.value, payslip_fields.gross_salary)
            bank_analytics ==
                ResolveBankAnalytics(GetDocument(aud, bank_stmt_id).analytics, fetched)
            salary_amounts == SalaryAmountsOf(bank_analytics)
        IN  IF picked.raised THEN [raised |-> TRUE, high |-> <<>>]
            ELSE IF ~IsNotNone(picked.value) THEN [raised |-> FALSE, high |-> <<>>]
            ELSE IF salary_amounts = <<>> THEN [raised |-> FALSE, high |-> <<>>]
            \* the comparison formats payslip_salary as a number
            ELSE IF payslip_salary.kind # "num" THEN [raised |-> TRUE, high |-> <<>>]
            ELSE IF payslip_salary.v > salary_amounts[1]
            THEN [raised |-> FALSE,
                  high |-> <<OverStatedIncome(payslip_id, bank_stmt_id,
                                              payslip_salary.v, salary_amounts[1])>>]
            ELSE [raised |-> FALSE, high |-> <<>>]

CheckCrossDocumentConsistency(doc_type, aud, fetched) ==
    LET income == CheckIncome(doc_type, aud, fetched)
    IN  IF income.raised THEN CrossDocRaised
        ELSE [raised |-> FALSE,
              critical |-> IdentityAnomalies(aud, aud.documents_by_type.PAYSLIP
                                                  \o aud.documents_by_type.BANK_STATEMENT),
              high |-> income.high, medium |-> <<>>, low |-> <<>>]

----------------------------------------------------------------------------
(* The rollup endpoints of api/v1/risk_analysis.py over the risk_analyses
   collection.  Stored scores are in tenths of a point, the scores of a
   report in hundredths.                                                    *)

RiskAnomalyCounts(critical, high, medium, low, count) ==
    [critical_anomalies |-> critical, high_anomalies |-> high,
     medium_anomalies |-> medium, low_anomalies |-> low, anomaly_count |-> count]

(* float(risk_score) and the clamp to [0, 100]; 0.0 when float() raises
   ValueError or TypeError *)
ClampedScore(stored_score) ==
    IF stored_score.kind \in {"num", "numstr"}
    THEN Max(0, Min(1000, stored_score.v))
    ELSE 0

(* risk_level.upper() if risk_level else "UNKNOWN" *)
NormalLevel(stored_level) ==
    CASE stored_level = "" -> "UNKNOWN"
      [] stored_level = "critical" -> "CRITICAL"
      [] stored_level = "high" -> "HIGH"
      [] stored_level = "medium" -> "MEDIUM"
      [] stored_level = "low" -> "LOW"
      [] OTHER -> stored_level

(* the stored anomaly_count when it is a number, else the lengths of the
   four lists; int(anomaly_count) if anomaly_count else 0 *)
AnomalyCountOf(stored_anomalies) ==
    IF stored_anomalies.anomaly_count.kind = "num"
    THEN stored_anomalies.anomaly_count.v
    ELSE stored_anomalies.critical_anomalies + stored_anomalies.high_anomalies
         + stored_anomalies.medium_anomalies + stored_anomalies.low_anomalies

(* cursor.sort("analysis_timestamp", -1): latest first, equal timestamps in
   stored order *)
RECURSIVE InsertByTimestamp(_, _)
InsertByTimestamp(sorted, a) ==
    IF sorted = <<>> THEN <<a>>
    ELSE IF Head(sorted).analysis_timestamp < a.analysis_timestamp
         THEN <<a>> \o sorted
         ELSE <<Head(sorted)>> \o InsertByTimestamp(Tail(sorted), a)

RECURSIVE SortLatestFirst(_, _)
SortLatestFirst(rows, acc) ==
    IF rows = <<>> THEN acc
    ELSE SortLatestFirst(Tail(rows), InsertByTimestamp(acc, Head(rows)))

RECURSIVE MaxRiskScore(_)
MaxRiskScore(analyses) ==
    IF analyses = <<>> THEN 0
    ELSE Max(ClampedScore(Head(analyses).risk_score), MaxRiskScore(Tail(analyses)))

RECURSIVE SumRiskScore(_)
SumRiskScore(analyses) ==
    IF analyses = <<>> THEN 0
    ELSE ClampedScore(Head(analyses).risk_score) + SumRiskScore(Tail(analyses))

RECURSIVE TotalAnomalies(_)
TotalAnomalies(analyses) ==
    IF analyses = <<>> THEN 0
    ELSE AnomalyCountOf(Head(analyses).anomalies) + TotalAnomalies(Tail(analyses))

RECURSIVE SeverityTotal(_, _)
SeverityTotal(analyses, bucket) ==
    IF analyses = <<>> THEN 0
    ELSE Head(analyses).anomalies[bucket] + SeverityTotal(Tail(analyses), bucket)

(* sum of risk_score * anomaly_count, the numerator of the weighted score *)
RECURSIVE WeightedSum(_)
WeightedSum(analyses) ==
    IF analyses = <<>> THEN 0
    ELSE ClampedScore(Head(analyses).risk_score) * AnomalyCountOf(Head(analyses).anomalies)
         + WeightedSum(Tail(analyses))

RiskLevelDistribution(analyses) ==
    LET levels == {NormalLevel(analyses[i].risk_level) : i \in 1..Len(analyses)}
    IN  [l \in levels |->
            Cardinality({i \in 1..Len(analyses) : NormalLevel(analyses[i].risk_level) = l})]

(* round(n / d, 2) of a quotient of tenths, in hundredths; on an exact
   decimal tie the binary value of the float decides, so both neighbours
   are possible *)
RoundChoices(n, d) ==
    LET q == (n * 10) \div d
        r == (n * 10) % d
    IN  IF 2 * r < d THEN {q}
        ELSE IF 2 * r > d THEN {q + 1}
        ELSE {q, q + 1}

AnalysisItem(a) ==
    [document_id |-> a.document_id, risk_score |-> a.risk_score,
     risk_level |-> a.risk_level, anomaly_count |-> AnomalyCountOf(a.anomalies)]

RECURSIVE AnalysesList(_)
AnalysesList(analyses) ==
    IF analyses = <<>> THEN <<>>
    ELSE <<AnalysisItem(Head(analyses))>> \o AnalysesList(Tail(analyses))

(* final_risk_score = round(max_risk_score, 2) *)
FinalRiskScore(analyses) == MaxRiskScore(analyses) * 10

(* the report over a non-empty list of analyses, with the rounded average
   and weighted scores given *)
RiskReport(analyses, average, weighted) ==
    [kind |-> "report",
     total_documents |-> Len(analyses),
     average_risk_score |-> average,
     max_risk_score |-> MaxRiskScore(analyses) * 10,
     weighted_risk_score |-> IF TotalAnomalies(analyses) > 0 THEN weighted ELSE average,
     final_risk_score |-> FinalRiskScore(analyses),
     risk_level_distribution |-> RiskLevelDistribution(analyses),
     total_anomalies |-> TotalAnomalies(analyses),
     anomalies_by_severity |->
         [critical |-> SeverityTotal(analyses, "critical_anomalies"),
          high |-> SeverityTotal(analyses, "high_anomalies"),
          medium |-> SeverityTotal(analyses, "medium_anomalies"),
          low |-> SeverityTotal(analyses, "low_anomalies")],
     most_recent_analysis_timestamp |-> analyses[1].analysis_timestamp,
     analyses |-> AnalysesList(analyses)]

NoRiskReport(total_documents) ==
    [kind |-> "empty", total_documents |-> total_documents,
     average_risk_score |-> 0, max_risk_score |-> 0, weighted_risk_score |-> 0,
     final_risk_score |-> 0, total_anomalies |-> 0]

(* HTTPException(status_code=500) out of the handler's except Exception *)
ServerError == [kind |-> "http_error", status_code |-> 500]

AverageChoices(analyses) == RoundChoices(SumRiskScore(analyses), Len(analyses))
WeightedChoices(analyses) ==
    IF TotalAnomalies(analyses) > 0
    THEN RoundChoices(WeightedSum(analyses), TotalAnomalies(analyses))
    ELSE {0}

(* db.documents.find({"application_id": id}) and
   db.risk_analyses.find({"document_id": {"$in": ids}}), latest first *)
ApplicationDocumentIds(docs, application_id) ==
    {d \in DOMAIN docs : docs[d].application_id = application_id}
AnalysesOfDocuments(stored, ids) ==
    SortLatestFirst(SelectSeq(stored, LAMBDA a : a.document_id \in ids), <<>>)
(* db.risk_analyses.find({"user_id": user_id}), latest first *)
AnalysesOfUser(stored, user_id) ==
    SortLatestFirst(SelectSeq(stored, LAMBDA a : a.user_id = user_id), <<>>)

(* get_application_risk_summary *)
ApplicationRiskSummary(docs, stored, application_id, average, weighted) ==
    LET document_ids == ApplicationDocumentIds(docs, application_id)
        analyses == AnalysesOfDocuments(stored, document_ids)
    IN  IF document_ids = {} THEN NoRiskReport(0)
        ELSE IF analyses = <<>> THEN NoRiskReport(Cardinality(document_ids))
        ELSE RiskReport(analyses, average, weighted)

(* get_user_risk_summary: with analyses to report, the second logger.info
   of the handler formats base_final_score and severity_points, names that
   are defined nowhere; the NameError is turned into the 500 response *)
UserRiskSummary(stored, user_id) ==
    IF AnalysesOfUser(stored, user_id) = <<>> THEN NoRiskReport(0)
    ELSE ServerError

----------------------------------------------------------------------------
(* Values of the variables an operation does not use *)

NoScore == [raised |-> FALSE, v |-> 0]
NoReasoning == [kind |-> "none", recommendations |-> [kind |-> "none", items |-> <<>>]]
NoAccountInfo ==
    [statement_period_from |-> DateNone, statement_period_to |-> DateNone,
     opening_balance |-> PyNone, closing_balance |-> PyNone]
NoProfile == [found |-> FALSE, existing_loan |-> NoText]
NoAnalytics == [kind |-> "none"]

RiskIdle ==
    /\ anomalies = EmptyAnomalies
    /\ validation_result = DefaultValidationResult
    /\ llm_configured = FALSE
    /\ risk_score = NoScore
    /\ risk_level = "NONE"
    /\ llm_reasoning = NoReasoning
    /\ recommendations = <<>>

CrossIdle ==
    /\ document_type = "UNKNOWN"
    /\ document_id = ""
    /\ all_user_documents = NoDocuments
    /\ cross_doc_anomalies = NoCrossDoc

NoSummary == [kind |-> "none"]

StoreIdle ==
    /\ documents = <<>>
    /\ risk_analyses = <<>>

NoTasks == [kind |-> "none"]

PipeIdle ==
    /\ extraction_results = <<>>
    /\ tasks = NoTasks
    /\ last_write = "none"

NoAmount == [kind |-> "none"]

ParseIdle ==
    /\ amount_value = PyNone
    /\ parsed_amount = NoAmount

AuxIdle == CrossIdle /\ StoreIdle /\ summary = NoSummary /\ PipeIdle /\ ParseIdle

BankIdle ==
    /\ transactions = <<>>
    /\ account_info = NoAccountInfo
    /\ customer_profile = NoProfile
    /\ analytics = NoAnalytics
    /\ bank_anomalies = NoBankAnomalies

----------------------------------------------------------------------------
(* SpecScore: _calculate_risk_score and _get_risk_level as functions of any
   anomalies value and any validation_result value *)

BucketInputs(sev) ==
    {NotAList} \cup {Bucket(Repeat(Anomaly("rule", sev), n)) : n \in 0..MaxPerBucket}

ScoreAnomalyInputs ==
    {NotADictAnomalies} \cup
    {[isdict |-> TRUE, critical_anomalies |-> c, high_anomalies |-> h,
      medium_anomalies |-> m, low_anomalies |-> l,
      anomaly_count |-> Len(c.items) + Len(h.items) + Len(m.items) + Len(l.items)] :
        c \in BucketInputs("critical"), h \in BucketInputs("high"),
        m \in BucketInputs("medium"), l \in BucketInputs("low")}

QualityInputs ==
    {PyNum(q) : q \in (0..100) \cup {0 - 10, 150}}
        \cup {PyNone, PyAbsent, PyStr, PyHuge, PyNaN}

ScoreValidationInputs ==
    {NotADictValidationResult} \cup
    {[DefaultValidationResult EXCEPT !.quality_score = q] : q \in QualityInputs}

InitScore ==
    /\ pc = "score_start"
    /\ anomalies \in ScoreAnomalyInputs
    /\ validation_result \in ScoreValidationInputs
    /\ llm_configured = FALSE
    /\ risk_score = NoScore
    /\ risk_level = "NONE"
    /\ llm_reasoning = NoReasoning
    /\ recommendations = <<>>
    /\ BankIdle
    /\ AuxIdle

CalculateRiskScoreStep ==
    /\ pc = "score_start"
    /\ risk_score' = CalculateRiskScore(anomalies, validation_result)
    /\ pc' = "scored"
    /\ UNCHANGED <<anomalies, validation_result, llm_configured, risk_level,
                   llm_reasoning, recommendations, bankVars, auxVars>>

GetRiskLevelStep ==
    /\ pc = "scored"
    /\ ~risk_score.raised
    /\ risk_level' = GetRiskLevel(risk_score.v)
    /\ pc' = "leveled"
    /\ UNCHANGED <<anomalies, validation_result, llm_configured, risk_score,
                   llm_reasoning, recommendations, bankVars, auxVars>>

NextScore == CalculateRiskScoreStep \/ GetRiskLevelStep

SpecScore == InitScore /\ [][NextScore]_vars

WellFormedScoreInput ==
    /\ anomalies.isdict
    /\ anomalies.critical_anomalies.islist /\ anomalies.high_anomalies.islist
    /\ anomalies.medium_anomalies.islist /\ anomalies.low_anomalies.islist
    /\ validation_result.isdict
    /\ validation_result.quality_score.kind = "num"
    /\ validation_result.quality_score.v \in 0..100

(* C1: for c critical, h high, m medium, l low anomalies and a quality score
   q in 0..100 the score is min(100, max(0, 60c + 30h + 10m + 2l + (100-q)*0.2))
   (in tenths: 600c + 300h + 100m + 20l + 2(100-q), capped to 0..1000). *)
C1_AdditiveScore ==
    (pc \in {"scored", "leveled"} /\ WellFormedScoreInput) =>
        LET c == Len(anomalies.critical_anomalies.items)
            h == Len(anomalies.high_anomalies.items)
            m == Len(anomalies.medium_anomalies.items)
            l == Len(anomalies.low_anomalies.items)
            q == validation_result.quality_score.v
            sum == 600 * c + 300 * h + 100 * m + 20 * l + 2 * (100 - q)
        IN  /\ ~risk_score.raised
            /\ risk_score.v = (IF sum > 1000 THEN 1000 ELSE IF sum < 0 THEN 0 ELSE sum)

C1_Witness ==
    /\ pc = "scored" /\ WellFormedScoreInput
    /\ Len(anomalies.critical_anomalies.items) = 0
    /\ Len(anomalies.high_anomalies.items) = 1
    /\ Len(anomalies.medium_anomalies.items) = 1
    /\ Len(anomalies.low_anomalies.items) = 1
    /\ validation_result.quality_score.v = 90
    /\ risk_score.v = 440

(* C2: the level is LOW below 30, MEDIUM from 30 up to but not including 60,
   HIGH from 60 up to but not including 80 and CRITICAL from 80; one critical
   anomaly with quality score 100 scores 60.0 and is HIGH. *)
C2_LevelThresholds ==
    pc = "leveled" =>
        /\ (risk_score.v < 300 => risk_level = "LOW")
        /\ (risk_score.v >= 300 /\ risk_score.v < 600 => risk_level = "MEDIUM")
        /\ (risk_score.v >= 600 /\ risk_score.v < 800 => risk_level = "HIGH")
        /\ (risk_score.v >= 800 => risk_level = "CRITICAL")
        /\ ( ( /\ WellFormedScoreInput
               /\ Len(anomalies.critical_anomalies.items) = 1
               /\ Len(anomalies.high_anomalies.items) = 0
               /\ Len(anomalies.medium_anomalies.items) = 0
               /\ Len(anomalies.low_anomalies.items) = 0
               /\ validation_result.quality_score.v = 100 )
             => risk_score.v = 600 /\ risk_level = "HIGH" )

C2_Witness ==
    /\ pc = "leveled" /\ WellFormedScoreInput
    /\ Len(anomalies.critical_anomalies.items) = 1
    /\ Len(anomalies.high_anomalies.items) = 0
    /\ Len(anomalies.medium_anomalies.items) = 0
    /\ Len(anomalies.low_anomalies.items) = 0
    /\ validation_result.quality_score.v = 100
    /\ risk_level = "HIGH"

(* C4: an exception inside the scoring step never leaves _calculate_risk_score;
   it is replaced by the score 50.0, whose level is MEDIUM. *)
C4_ScoreNeverRaises ==
    pc \in {"scored", "leveled"} =>
        /\ ~risk_score.raised
        /\ ScoreBody(anomalies, validation_result).exc =>
              /\ risk_score.v = 500
              /\ (pc = "leveled" => risk_level = "MEDIUM")

C4_Witness ==
    /\ pc = "leveled"
    /\ validation_result.isdict
    /\ validation_result.quality_score.kind = "huge"
    /\ Len(anomalies.critical_anomalies.items) = 2
    /\ risk_score.v = 500
    /\ risk_level = "MEDIUM"

----------------------------------------------------------------------------
(* Spec: analyze_risk, one analysis of one document *)

MaxFound == 1          \* rule anomalies found per severity in one analysis

(* _check_data_quality_anomalies: [raised, medium, low] *)
CheckDataQualityAnomalies(vr) ==
    LET q == vr.quality_score
        qraises == q.kind \in {"none", "str", "list"}      \* None < 50: TypeError
        qlow == q.kind = "num" /\ q.v < 50
        eraises == vr.errors.kind \in {"none", "num", "huge", "nan"}  \* len(None)
        emany == vr.errors.kind = "list" /\ vr.errors.v > 3
        wraises == vr.warnings.kind \in {"none", "num", "huge", "nan"}
        wmany == vr.warnings.kind = "list" /\ vr.warnings.v > 5
    IN  [raised |-> qraises \/ eraises \/ wraises,
         medium |-> (IF qlow THEN <<Anomaly("low_quality_score", "medium")>> ELSE <<>>)
                    \o (IF emany THEN <<Anomaly("multiple_validation_errors", "medium")>>
                        ELSE <<>>),
         low |-> IF wmany THEN <<Anomaly("many_warnings", "low")>> ELSE <<>>]

(* the BANK_STATEMENT branch of _detect_anomalies: the buckets it adds for
   the outcome of analyze_bank_statement and of the conversion *)
BankStatementAnomalies(doc_type, doc_id, outcome) ==
    IF doc_type # "BANK_STATEMENT" THEN NoBankAnomalies
    ELSE IF doc_id = ""
    THEN [NoBankAnomalies EXCEPT
            !.low = <<Anomaly("bank_statement_missing_document_id", "low")>>]
    ELSE CASE outcome.kind = "error" ->
                [NoBankAnomalies EXCEPT
                    !.medium = <<Anomaly("bank_statement_analysis_failed", "medium")>>]
           [] outcome.kind = "raised" ->
                [NoBankAnomalies EXCEPT
                    !.medium = <<Anomaly("bank_statement_analysis_error", "medium")>>]
           [] OTHER -> outcome.anomalies

(* what a later analyze_bank_statement of the same statement gives the
   cross-document check *)
FetchedOf(outcome) ==
    CASE outcome.kind = "error" -> AnalyticsError
      [] outcome.kind = "raised" -> AnalyticsRaised
      [] OTHER -> BankAnalytics(outcome.salary_amounts)

(* a count that leaves the low bucket out *)
DetectAnomaliesCountWithoutLow(doc_type, doc_id, outcome, found, aud, vr) ==
    LET bank == BankStatementAnomalies(doc_type, doc_id, outcome)
        cross == IF aud = NoDocuments THEN NoCrossDoc
                 ELSE CheckCrossDocumentConsistency(doc_type, aud, FetchedOf(outcome))
        dq == CheckDataQualityAnomalies(vr)
        crit == bank.critical \o found.critical \o cross.critical
        high == bank.high \o found.high \o cross.high
        med == bank.medium \o found.medium \o cross.medium \o dq.medium
        low == bank.low \o found.low \o dq.low
    IN  [raised |-> cross.raised \/ dq.raised,
         anomalies |->
            [isdict |-> TRUE,
             critical_anomalies |-> Bucket(crit),
             high_anomalies |-> Bucket(high),
             medium_anomalies |-> Bucket(med),
             low_anomalies |-> Bucket(low),
             anomaly_count |-> Len(crit) + Len(high) + Len(med)]]

(* _detect_anomalies: the anomalies of the bank analytics, of the
   document-type detector (found) and of the cross-document checks, followed
   by the data quality anomalies, and the count *)
DetectAnomalies(doc_type, doc_id, outcome, found, aud, vr) ==
    LET bank == BankStatementAnomalies(doc_type, doc_id, outcome)
        cross == IF aud = NoDocuments THEN NoCrossDoc
                 ELSE CheckCrossDocumentConsistency(doc_type, aud, FetchedOf(outcome))
        dq == CheckDataQualityAnomalies(vr)
        crit == bank.critical \o found.critical \o cross.critical
        high == bank.high \o found.high \o cross.high
        med == bank.medium \o found.medium \o cross.medium \o dq.medium
        low == bank.low \o found.low \o dq.low
    IN  [raised |-> cross.raised \/ dq.raised,
         anomalies |->
            [isdict |-> TRUE,
             critical_anomalies |-> Bucket(crit),
             high_anomalies |-> Bucket(high),
             medium_anomalies |-> Bucket(med),
             low_anomalies |-> Bucket(low),
             anomaly_count |-> Len(crit) + Len(high) + Len(med) + Len(low)]]

(* _generate_llm_recommendations *)
GenerateLlmRecommendations(anoms) ==
    LET crit == anoms.critical_anomalies.items # <<>>
        high == anoms.high_anomalies.items # <<>>
    IN  (IF crit THEN <<"REJECT", "ACTION REQUIRED">> ELSE <<>>)
        \o (IF high THEN <<"REVIEW", "VERIFY">> ELSE <<>>)
        \o (IF ~crit /\ ~high THEN <<"ACCEPT">> ELSE <<>>)

RecList(items) == [kind |-> "list", items |-> items]
RecString(chars) == [kind |-> "str", items |-> chars]
RecScalar == [kind |-> "true_scalar", items |-> <<>>]   \* 1, true: truthy, not iterable
RecNull == [kind |-> "none", items |-> <<>>]            \* null, 0, false, key absent

(* What the collaborator does when called *)
LlmResponses ==
    {[kind |-> k, required_actions |-> RecNull] :
        k \in {"raises", "unparsable", "bad_shape"}}
    \cup {[kind |-> "object", required_actions |-> r] :
        r \in {RecList(<<"llm action">>), RecList(<<>>), RecString(<<"a", "b">>),
               RecScalar, RecNull}}

(* _get_llm_reasoning *)
GetLlmReasoning(configured, resp, anoms) ==
    LET fallback == RecList(GenerateLlmRecommendations(anoms))
    IN  IF ~configured THEN [kind |-> "rule_based", recommendations |-> fallback]
        ELSE CASE resp.kind = "raises" ->
                    [kind |-> "fallback_error", recommendations |-> fallback]
               [] resp.kind = "bad_shape" ->
                    [kind |-> "fallback_error", recommendations |-> fallback]
               [] resp.kind = "unparsable" ->
                    [kind |-> "llm_text", recommendations |-> fallback]
               [] OTHER ->
                    [kind |-> "llm",
                     recommendations |->
                        IF resp.required_actions.kind = "none" THEN RecList(<<>>)
                        ELSE resp.required_actions]

(* _generate_recommendations: [raised, items] *)
GenerateRecommendations(score, reasoning) ==
    LET level == GetRiskLevel(score)
        base == CASE level = "CRITICAL" -> <<"IMMEDIATE ACTION", "ESCALATE">>
                  [] level = "HIGH" -> <<"MANUAL REVIEW", "VERIFY">>
                  [] level = "MEDIUM" -> <<"REVIEW", "CLARIFY">>
                  [] OTHER -> <<"PROCEED">>
        recs == reasoning.recommendations
        truthy == /\ reasoning.kind # "none"
                  /\ \/ recs.kind = "true_scalar"
                     \/ recs.kind \in {"list", "str"} /\ recs.items # <<>>
    IN  IF truthy /\ recs.kind = "true_scalar"
        THEN [raised |-> TRUE, items |-> base]       \* list.extend(1): TypeError
        ELSE [raised |-> FALSE,
              items |-> IF truthy THEN base \o recs.items ELSE base]

FoundInputs ==
    {[critical |-> Repeat(Anomaly("rule", "critical"), c),
      high |-> Repeat(Anomaly("rule", "high"), h),
      medium |-> Repeat(Anomaly("rule", "medium"), m),
      low |-> Repeat(Anomaly("rule", "low"), l)] :
        c \in 0..MaxFound, h \in 0..MaxFound, m \in 0..MaxFound, l \in 0..MaxFound}

AnalyzeValidationInputs ==
    {NotADictValidationResult} \cup
    {[isdict |-> TRUE, quality_score |-> q, errors |-> e, warnings |-> w] :
        q \in {PyNum(100), PyNum(80), PyNum(40), PyAbsent, PyNone, PyHuge},
        e \in {PyList(0), PyList(4), PyNone}, w \in {PyList(0), PyList(6)}}

(* the document under analysis *)
AnalyzedDocumentInputs ==
    {<<"BANK_STATEMENT", "b1">>, <<"BANK_STATEMENT", "">>, <<"PAYSLIP", "p1">>,
     <<"PAN", "x1">>}

(* what analyze_bank_statement and the conversion of its analytics give *)
BankOutcomeInputs ==
    {[kind |-> "error"], [kind |-> "raised"],
     [kind |-> "converted", salary_amounts |-> <<Rupees(50000)>>,
      anomalies |-> NoBankAnomalies],
     [kind |-> "converted", salary_amounts |-> <<>>,
      anomalies |-> [NoBankAnomalies EXCEPT
                        !.critical = <<UndeclaredLoans(1, Rupees(5000))>>]]}

(* the aggregation of the user's documents: none, a payslip above the bank
   credit, a payslip whose net pay was extracted as text, a payslip below
   the bank credit whose name differs *)
AnalyzeUserDocumentInputs ==
    {NoDocuments,
     UserDocuments(<<"p1">>, <<"b1">>,
                   PayslipFields(PyNum(Rupees(70000)), PyAbsent, PyAbsent),
                   NoStoredAnalytics, FALSE),
     UserDocuments(<<"p1">>, <<"b1">>,
                   PayslipFields(PyNumStr(Rupees(70000)), PyAbsent, PyAbsent),
                   NoStoredAnalytics, FALSE),
     UserDocuments(<<"p1">>, <<"b1">>,
                   PayslipFields(PyNum(Rupees(40000)), PyAbsent, PyAbsent),
                   NoStoredAnalytics, TRUE)}

Init ==
    /\ pc = "analyze_start"
    /\ anomalies = EmptyAnomalies
    /\ validation_result \in AnalyzeValidationInputs
    /\ llm_configured \in BOOLEAN
    /\ risk_score = NoScore
    /\ risk_level = "NONE"
    /\ llm_reasoning = NoReasoning
    /\ recommendations = <<>>
    /\ BankIdle
    /\ \E doc \in AnalyzedDocumentInputs : document_type = doc[1] /\ document_id = doc[2]
    /\ all_user_documents \in AnalyzeUserDocumentInputs
    /\ cross_doc_anomalies = NoCrossDoc
    /\ StoreIdle
    /\ summary = NoSummary
    /\ PipeIdle
    /\ ParseIdle

(* analyze_risk up to the end of step 1 *)
AnalyzeDetect ==
    /\ pc = "analyze_start"
    /\ \E found \in FoundInputs, outcome \in BankOutcomeInputs :
          LET vr == IF validation_result.isdict THEN validation_result
                    ELSE DefaultValidationResult
              d == DetectAnomalies(document_type, document_id, outcome, found,
                                   all_user_documents, vr)
          IN  /\ validation_result' = vr
              /\ analytics' = outcome
              /\ anomalies' = IF d.raised THEN anomalies ELSE d.anomalies
              /\ pc' = IF d.raised THEN "raised_detect" ELSE "detected"
    /\ UNCHANGED <<llm_configured, risk_score, risk_level, llm_reasoning,
                   recommendations, transactions, account_info, customer_profile,
                   bank_anomalies, auxVars>>

(* step 2 *)
AnalyzeScore ==
    /\ pc = "detected"
    /\ risk_score' = CalculateRiskScore(anomalies, validation_result)
    /\ pc' = "risk_scored"
    /\ UNCHANGED <<anomalies, validation_result, llm_configured, risk_level,
                   llm_reasoning, recommendations, bankVars, auxVars>>

(* a guard that enters the reasoning step on any anomaly at all *)
NeedsLlmReasoningAny(anoms) == anoms.anomaly_count > 0

(* the guard of step 3: a non-empty critical or high bucket *)
NeedsLlmReasoning(anoms) ==
    anoms.critical_anomalies.items # <<>> \/ anoms.high_anomalies.items # <<>>

(* step 3 *)
AnalyzeReasoning ==
    /\ pc = "risk_scored"
    /\ IF NeedsLlmReasoning(anomalies)
       THEN \E resp \in LlmResponses :
                llm_reasoning' = GetLlmReasoning(llm_configured, resp, anomalies)
       ELSE llm_reasoning' = NoReasoning
    /\ pc' = "reasoned"
    /\ UNCHANGED <<anomalies, validation_result, llm_configured, risk_score,
                   risk_level, recommendations, bankVars, auxVars>>

(* step 4 and the result *)
AnalyzeFinish ==
    /\ pc = "reasoned"
    /\ LET r == GenerateRecommendations(risk_score.v, llm_reasoning)
       IN  IF r.raised
           THEN /\ pc' = "raised_recommend"
                /\ UNCHANGED <<recommendations, risk_level>>
           ELSE /\ recommendations' = r.items
                /\ risk_level' = GetRiskLevel(risk_score.v)
                /\ pc' = "returned"
    /\ UNCHANGED <<anomalies, validation_result, llm_configured, risk_score,
                   llm_reasoning, bankVars, auxVars>>

Next == AnalyzeDetect \/ AnalyzeScore \/ AnalyzeReasoning \/ AnalyzeFinish

Spec == Init /\ [][Next]_vars

Detected == pc \in {"detected", "risk_scored", "reasoned", "returned", "raised_recommend"}

BucketSeverities ==
    [critical_anomalies |-> "critical", high_anomalies |-> "high",
     medium_anomalies |-> "medium", low_anomalies |-> "low"]

(* C28: in every anomaly collection returned by _detect_anomalies,
   anomaly_count equals the total number of anomalies in the critical, high,
   medium and low buckets, and every anomaly's severity field names the
   bucket that holds it *)
C28_CountAndSeverityMatchBuckets ==
    Detected =>
        /\ anomalies.anomaly_count =
              Len(anomalies.critical_anomalies.items) + Len(anomalies.high_anomalies.items)
              + Len(anomalies.medium_anomalies.items) + Len(anomalies.low_anomalies.items)
        /\ \A k \in DOMAIN BucketSeverities :
              \A i \in 1..Len(anomalies[k].items) :
                  anomalies[k].items[i].severity = BucketSeverities[k]

(* a bank statement analysed with anomalies of the detector and of the
   cross-document check in the collection, every bucket filled *)
C28_Witness ==
    /\ pc = "detected"
    /\ document_type = "BANK_STATEMENT"
    /\ CountType(anomalies.critical_anomalies.items, "rule") = 1
    /\ CountType(anomalies.high_anomalies.items, "over_stated_income") = 1
    /\ CountType(anomalies.high_anomalies.items, "rule") = 1
    /\ anomalies.medium_anomalies.items # <<>>
    /\ anomalies.low_anomalies.items # <<>>
    /\ anomalies.anomaly_count >= 5

(* C3: whatever the textual-reasoning collaborator does (succeeds, returns
   unparsable output, raises, is not configured), analyze_risk returns the
   score and level fixed by the anomalies and the validation result, and never
   raises because of the collaborator. *)
C3_CollaboratorNeverFatal ==
    /\ pc = "returned" =>
          /\ risk_score = CalculateRiskScore(anomalies, validation_result)
          /\ risk_level = GetRiskLevel(risk_score.v)
    /\ pc # "raised_recommend"

(* C14: the reasoning step of analyze_risk is entered only with at least one
   critical or high anomaly; with medium and low anomalies only, or none, the
   result carries no llm_reasoning (None). *)
C14_LlmOnlyOnCriticalOrHigh ==
    pc \in {"reasoned", "returned", "raised_recommend"} =>
        /\ llm_reasoning.kind # "none" =>
              \/ Len(anomalies.critical_anomalies.items) >= 1
              \/ Len(anomalies.high_anomalies.items) >= 1
        /\ (Len(anomalies.critical_anomalies.items) = 0
             /\ Len(anomalies.high_anomalies.items) = 0) =>
              llm_reasoning = NoReasoning

(* a result with medium and low anomalies only and no llm_reasoning *)
C14_Witness ==
    /\ pc = "returned"
    /\ anomalies.critical_anomalies.items = <<>>
    /\ anomalies.high_anomalies.items = <<>>
    /\ anomalies.medium_anomalies.items # <<>>
    /\ anomalies.low_anomalies.items # <<>>
    /\ llm_reasoning = NoReasoning

(* a validation_result that is a dict whose quality_score, errors or warnings
   is missing, null or not of its type (one that is not a dict has been replaced
   by the default on entry) *)
NonConformingValidation ==
    \/ validation_result.quality_score.kind \notin {"num", "huge"}
    \/ validation_result.errors.kind # "list"
    \/ validation_result.warnings.kind # "list"

(* C15: for every validation_result that does not conform to the expected
   record, analyze_risk completes without raising; here for a document
   analysed on its own, without the user's other documents. *)
C15_MalformedValidationTolerated ==
    (pc # "analyze_start" /\ all_user_documents = NoDocuments
        /\ NonConformingValidation) =>
        /\ pc # "raised_detect"
        /\ ~risk_score.raised

(* the analysis of a bank statement whose transaction source returned no rows *)
NoRowsAnalysed ==
    /\ pc # "analyze_start"
    /\ document_type = "BANK_STATEMENT"
    /\ document_id # ""
    /\ analytics.kind = "error"

AnalysisFailedReported ==
    \E i \in DOMAIN anomalies.medium_anomalies.items :
        anomalies.medium_anomalies.items[i].type = "bank_statement_analysis_failed"

(* C13: when the transaction source returns no rows for a BANK_STATEMENT
   document, analyze_risk raises nothing, and the result it returns has a
   score, a level and a medium anomaly saying that the bank statement
   analysis could not be completed. *)
C13_NoRowsNotFatal ==
    NoRowsAnalysed =>
        /\ pc \notin {"raised_detect", "raised_recommend"}
        /\ AnalysisFailedReported
        /\ pc = "returned" =>
              /\ ~risk_score.raised
              /\ risk_level \in {"LOW", "MEDIUM", "HIGH", "CRITICAL"}

----------------------------------------------------------------------------
(* SpecSequence: the fraud analysis of a statement, from the fetch of the
   rows to the anomaly buckets, over short statements *)

MaxTxns == 3


SeqOfAtMost(S, n) == UNION {[1..k -> S] : k \in 0..n}

LongText == Repeat("N", DescKeyLen)

(* a credit of 5,000 and the same row stored a second time: its description
   differs in the surrounding blanks and after the 100th character, its
   amount in the third decimal *)
TxnIn ==
    Txn("t1", Date(2025, 1, 10), LongText \o <<"1">>, "CREDIT",
        PyNum(Rupees(5000)), PyNone, PyNum(Rupees(15000)))
TxnInAgain ==
    Txn("t2", Date(2025, 1, 10), <<" ">> \o LongText \o <<"2">>, "CREDIT",
        PyNum(Rupees(5000) + 4), PyNone, PyNum(Rupees(15000)))
TxnOut ==
    Txn("t3", Date(2025, 1, 20), <<"A","T","M"," ","W","D","L">>, "DEBIT",
        PyNone, PyNum(Rupees(3000)), PyNum(Rupees(12000)))
TxnFee ==
    Txn("t4", Date(2025, 1, 25), <<"C","H","A","R","G","E","S">>, "DEBIT",
        PyNone, PyNum(Rupees(1) + 1), PyNum(Rupees(11999) - 1))
TxnOld ==
    Txn("t5", Date(2024, 12, 15), <<"O","L","D">>, "CREDIT",
        PyNum(Rupees(2000)), PyNone, PyNum(Rupees(10000)))
TxnUndated ==
    Txn("t6", DateNone, <<"A","D","J">>, "DEBIT",
        PyNone, PyNum(500), PyNone)
TxnBadDate ==
    Txn("t7", DateBad, <<"A","D","J"," ","I","N">>, "CREDIT",
        PyNum(Rupees(1000)), PyNone, PyNum(Rupees(9000)))

SequenceTxnPool ==
    {TxnIn, TxnInAgain, TxnOut, TxnFee, TxnOld, TxnUndated, TxnBadDate}

SequenceInfoInputs ==
    {[statement_period_from |-> p[1], statement_period_to |-> p[2],
      opening_balance |-> o, closing_balance |-> c] :
        p \in {<<DateNone, DateNone>>, <<Date(2025, 1, 1), Date(2025, 1, 31)>>},
        o \in {PyNone, PyNum(Rupees(10000)), PyNum(0)},
        c \in {PyNone, PyNum(Rupees(12000)), PyNum(Rupees(11000)),
               PyNum(Rupees(11999)), PyNum(0)}}

ConsistencyInputs == {PyNum(10000), PyNum(4000)}

InitSequence ==
    /\ pc = "bank_start"
    /\ RiskIdle
    /\ AuxIdle
    /\ transactions \in SeqOfAtMost(SequenceTxnPool, MaxTxns)
    /\ account_info \in SequenceInfoInputs
    /\ customer_profile = NoProfile
    /\ analytics = NoAnalytics
    /\ bank_anomalies = NoBankAnomalies

(* analyze_bank_statement, the fetch: the rows of bank_transaction_record as
   stored, or de-duplicated when they are reached through extraction_results;
   without rows the analysis ends with the "No transactions found" record *)
FetchTransactions ==
    /\ pc = "bank_start"
    /\ \E dedup \in BOOLEAN :
          LET fetched == IF dedup THEN Dedup(transactions) ELSE transactions
          IN  /\ analytics' = IF fetched = <<>> THEN [kind |-> "error"]
                              ELSE [kind |-> "fetched", deduplicated |-> dedup,
                                    transactions |-> fetched]
              /\ pc' = IF fetched = <<>> THEN "no_transactions" ELSE "fetched"
    /\ UNCHANGED <<riskVars, auxVars, transactions, account_info, customer_profile,
                   bank_anomalies>>

(* analyze_bank_statement, the call of _detect_fraud_anomalies *)
DetectFraudAnomaliesStep ==
    /\ pc = "fetched"
    /\ \E consistency_score \in ConsistencyInputs :
          LET fraud == DetectFraudAnomalies(analytics.transactions,
                                            consistency_score,
                                            account_info.statement_period_from,
                                            account_info)
          IN  /\ analytics' = [kind |-> "analysed",
                               deduplicated |-> analytics.deduplicated,
                               transactions |-> analytics.transactions,
                               fraud_analysis |-> fraud]
              /\ pc' = IF fraud.raised THEN "raised_fraud" ELSE "analysed"
    /\ UNCHANGED <<riskVars, auxVars, transactions, account_info, customer_profile,
                   bank_anomalies>>

(* _convert_bank_analytics_to_anomalies over the fraud analysis *)
ConvertFraudAnomaliesStep ==
    /\ pc = "analysed"
    /\ bank_anomalies' = ConvertFraudAnomalies(analytics.fraud_analysis.anomalies)
    /\ pc' = "converted"
    /\ UNCHANGED <<riskVars, auxVars, transactions, account_info, customer_profile,
                   analytics>>

NextFraud ==
    \/ FetchTransactions
    \/ DetectFraudAnomaliesStep
    \/ ConvertFraudAnomaliesStep

SpecSequence == InitSequence /\ [][NextFraud]_vars

FraudAnalysed == pc \in {"analysed", "converted"}

(* C5: with O the opening balance, C the closing balance and the two totals
   the validation worked with, a difference |O + credits - debits - C| of at
   most one unit yields no error, a larger one yields exactly one error that
   carries the difference, the opening balance and both totals, and the
   errors surface as exactly one critical transaction_sequence_error anomaly;
   opening 10,000, one credit of 5,000, one debit of 3,000: no error for a
   closing balance of 12,000, one error of difference 1,000 for 11,000 *)
C5_SequenceTolerance ==
    FraudAnalysed =>
        LET v == analytics.fraud_analysis.validation
            resolved == v.opening_balance.kind = "num" /\ v.closing_balance.kind = "num"
            O == v.opening_balance.v
            C == v.closing_balance.v
            difference == Abs(O + v.total_credits - v.total_debits - C)
            example == /\ v.unique_txns = <<TxnIn, TxnOut>>
                       /\ account_info.opening_balance = PyNum(Rupees(10000))
        IN  /\ ~resolved => v.errors = <<>>
            /\ resolved /\ difference <= Rupees(1) => v.errors = <<>>
            /\ resolved /\ difference > Rupees(1) =>
                  /\ Len(v.errors) = 1
                  /\ v.errors[1].difference = difference
                  /\ v.errors[1].opening_balance = O
                  /\ v.errors[1].total_credits = v.total_credits
                  /\ v.errors[1].total_debits = v.total_debits
            /\ resolved => /\ v.total_credits = TotalCredits(v.unique_txns)
                           /\ v.total_debits = TotalDebits(v.unique_txns)
            /\ example /\ account_info.closing_balance = PyNum(Rupees(12000))
                  => v.errors = <<>>
            /\ example /\ account_info.closing_balance = PyNum(Rupees(11000))
                  => Len(v.errors) = 1 /\ v.errors[1].difference = Rupees(1000)
            /\ pc = "converted" =>
                  /\ CountType(bank_anomalies.critical, "transaction_sequence_error")
                        = (IF v.errors = <<>> THEN 0 ELSE 1)
                  /\ \A i \in 1..Len(bank_anomalies.critical) :
                        bank_anomalies.critical[i].type = "transaction_sequence_error"
                            => bank_anomalies.critical[i].error_details = v.errors
                  /\ CountType(bank_anomalies.high \o bank_anomalies.medium
                                  \o bank_anomalies.low,
                               "transaction_sequence_error") = 0

C5_Witness ==
    /\ pc = "converted"
    /\ transactions = <<TxnIn, TxnOut>>
    /\ account_info.opening_balance = PyNum(Rupees(10000))
    /\ account_info.closing_balance = PyNum(Rupees(11000))
    /\ Len(bank_anomalies.critical) = 1
    /\ bank_anomalies.critical[1].type = "transaction_sequence_error"
    /\ bank_anomalies.critical[1].severity = "critical"
    /\ bank_anomalies.critical[1].error_details[1].difference = Rupees(1000)

(* C6: de-duplicating by the key (date, description stripped and cut to 100
   characters, credit and debit rounded to 2 decimals) a list that has
   already been de-duplicated returns the same rows in the same order, and
   the rows kept are the first row of every key *)
C6_DedupIdempotent ==
    FraudAnalysed =>
        LET given == analytics.transactions
            deduped == analytics.fraud_analysis.validation.deduped
            firsts == {i \in 1..Len(given) :
                         \A h \in 1..(i - 1) : DedupKey(given[h]) # DedupKey(given[i])}
        IN  /\ Dedup(deduped) = deduped
            /\ analytics.deduplicated => deduped = given
            /\ \A i, j \in 1..Len(deduped) :
                  DedupKey(deduped[i]) = DedupKey(deduped[j]) => i = j
            /\ Len(deduped) = Cardinality(firsts)
            /\ \A k \in 1..Len(deduped) :
                  deduped[k] = given[CHOOSE i \in firsts :
                                        Cardinality({h \in firsts : h <= i}) = k]

C6_Witness ==
    /\ pc = "analysed"
    /\ analytics.deduplicated
    /\ transactions = <<TxnIn, TxnInAgain, TxnOut>>
    /\ analytics.transactions = <<TxnIn, TxnOut>>
    /\ analytics.fraud_analysis.validation.deduped = <<TxnIn, TxnOut>>

(* the statement was reconciled: rows remained in the period and both
   balances were resolved *)
Reconciled ==
    /\ FraudAnalysed
    /\ analytics.fraud_analysis.validation.unique_txns # <<>>
    /\ analytics.fraud_analysis.validation.opening_balance.kind = "num"
    /\ analytics.fraud_analysis.validation.closing_balance.kind = "num"

(* the opening balance derived from the first row in date order, and the
   balance of the last *)
DerivedOpening(unique) ==
    LET first == SortByDate(unique)[1]
    IN  ParseAmount(OrZero(first.balance_after_transaction))
          - ParseAmount(OrZero(first.credit_amount))
          + ParseAmount(OrZero(first.debit_amount))

LastBalance(unique) ==
    ParseAmount(OrZero(SortByDate(unique)[Len(unique)].balance_after_transaction))

(* C23: reconciliation uses the header opening and closing balances whenever
   the header supplies them, for every numeric header value; only when a
   header value is absent is the opening derived as the first transaction's
   balance minus its credit plus its debit, and the closing taken from the
   last transaction's balance *)
C23_HeaderBalancesUsedWhenSupplied ==
    FraudAnalysed /\ analytics.fraud_analysis.validation.unique_txns # <<>> =>
        LET v == analytics.fraud_analysis.validation
        IN  /\ account_info.opening_balance.kind = "num"
                  => v.opening_balance = account_info.opening_balance
            /\ account_info.closing_balance.kind = "num" /\ v.opening_balance.kind = "num"
                  => v.closing_balance = account_info.closing_balance
            /\ account_info.opening_balance.kind = "none" /\ v.opening_balance.kind = "num"
                  => v.opening_balance.v = DerivedOpening(v.unique_txns)
            /\ account_info.closing_balance.kind = "none" /\ v.closing_balance.kind = "num"
                  => v.closing_balance.v = LastBalance(v.unique_txns)

(* what holds instead: a header balance is used when it is not zero, and a
   header balance of zero is replaced like an absent one *)
HeaderBalancesUsedWhenNonZero ==
    Reconciled =>
        LET v == analytics.fraud_analysis.validation
        IN  /\ v.opening_balance.v =
                  (IF account_info.opening_balance.kind = "num"
                      /\ account_info.opening_balance.v # 0
                   THEN account_info.opening_balance.v
                   ELSE DerivedOpening(v.unique_txns))
            /\ v.closing_balance.v =
                  (IF account_info.closing_balance.kind = "num"
                      /\ account_info.closing_balance.v # 0
                   THEN account_info.closing_balance.v
                   ELSE LastBalance(v.unique_txns))

(* a statement whose header opens at zero was reconciled from 10,000 *)
ZeroOpeningReplaced ==
    /\ Reconciled
    /\ account_info.opening_balance = PyNum(0)
    /\ analytics.fraud_analysis.validation.unique_txns = <<TxnIn, TxnOut>>
    /\ analytics.fraud_analysis.validation.opening_balance = PyNum(Rupees(10000))

----------------------------------------------------------------------------
(* SpecIncome: the income analysis of a statement and the salary-gap anomaly *)

SalaryText == <<"S","A","L","A","R","Y"," ","C","R","E","D","I","T">>

SalaryJan ==
    Txn("s1", Date(2025, 1, 5), SalaryText, "CREDIT",
        PyNum(Rupees(50000)), PyNone, PyNum(Rupees(60000)))
SalaryFeb ==
    Txn("s2", Date(2025, 2, 5), SalaryText, "CREDIT",
        PyNum(Rupees(50000)), PyNone, PyNum(Rupees(90000)))
SalaryMar ==
    Txn("s3", Date(2025, 3, 5), <<"n","e","f","t"," ","s","a","l"," ","m","a","r">>,
        "CREDIT", PyNum(Rupees(52000)), PyNone, PyNum(Rupees(120000)))
SalaryBadDate ==
    Txn("s4", DateBad, SalaryText, "CREDIT",
        PyNum(Rupees(51000)), PyNone, PyNum(Rupees(70000)))
SalaryUndated ==
    Txn("s5", DateNone, SalaryText, "CREDIT",
        PyNum(Rupees(48000)), PyNone, PyNone)
(* the January salary stored a second time under another transaction id, its
   description in lower case with a doubled blank *)
SalaryJanRepeat ==
    Txn("s8", Date(2025, 1, 5), <<"s","a","l","a","r","y"," "," ","c","r","e","d","i","t">>,
        "CREDIT", PyNum(Rupees(50000)), PyNone, PyNum(Rupees(60000)))
CashDeposit ==
    Txn("s6", Date(2025, 1, 15), <<"C","A","S","H"," ","D","E","P","O","S","I","T">>,
        "CREDIT", PyNum(Rupees(20000)), PyNone, PyNum(Rupees(80000)))
SalaryAdvanceDebit ==
    Txn("s7", Date(2025, 1, 20), <<"S","A","L","A","R","Y"," ","A","D","V">>,
        "DEBIT", PyNone, PyNum(Rupees(10000)), PyNum(Rupees(70000)))

IncomeTxnPool ==
    {SalaryJan, SalaryFeb, SalaryMar, SalaryBadDate, SalaryUndated, CashDeposit,
     SalaryAdvanceDebit, SalaryJanRepeat}

IncomePeriods ==
    {<<DateNone, DateNone>>,
     <<Date(2025, 1, 1), Date(2025, 2, 28)>>,
     <<Date(2025, 1, 1), Date(2025, 3, 31)>>}

InitIncome ==
    /\ pc = "bank_start"
    /\ RiskIdle
    /\ AuxIdle
    /\ transactions \in SeqOfAtMost(IncomeTxnPool, MaxTxns)
    /\ account_info \in {[NoAccountInfo EXCEPT !.statement_period_from = p[1],
                                               !.statement_period_to = p[2]] :
                            p \in IncomePeriods}
    /\ customer_profile = NoProfile
    /\ analytics = NoAnalytics
    /\ bank_anomalies = NoBankAnomalies

(* analyze_bank_statement, the call of _analyze_income *)
AnalyzeIncomeStep ==
    /\ pc = "fetched"
    /\ analytics' = [kind |-> "income_analysed",
                     deduplicated |-> analytics.deduplicated,
                     transactions |-> analytics.transactions,
                     income_analysis |->
                        AnalyzeIncome(analytics.transactions,
                                      account_info.statement_period_from,
                                      account_info.statement_period_to)]
    /\ pc' = "income_analysed"
    /\ UNCHANGED <<riskVars, auxVars, transactions, account_info, customer_profile,
                   bank_anomalies>>

(* _convert_bank_analytics_to_anomalies over the income analysis *)
ConvertSalaryGapsStep ==
    /\ pc = "income_analysed"
    /\ bank_anomalies' = [NoBankAnomalies EXCEPT
                            !.medium = ConvertSalaryGaps(analytics.income_analysis)]
    /\ pc' = "income_converted"
    /\ UNCHANGED <<riskVars, auxVars, transactions, account_info, customer_profile,
                   analytics>>

NextIncome ==
    \/ FetchTransactions
    \/ AnalyzeIncomeStep
    \/ ConvertSalaryGapsStep

SpecIncome == InitIncome /\ [][NextIncome]_vars

IncomeAnalysed == pc \in {"income_analysed", "income_converted"}

(* the pattern fallback of _analyze_income never has a candidate: whenever no
   credit matches the salary keywords, no credit names SALARY or SAL either,
   the fallback accepts nothing and no salary is detected *)
FallbackNeverHasCandidates ==
    (IncomeAnalysed /\ SelectSeq(analytics.transactions, IsSalaryCredit) = <<>>) =>
        /\ SalaryCandidateCredits(analytics.transactions) = <<>>
        /\ PatternSalaryCredits(analytics.transactions) = <<>>
        /\ ~analytics.income_analysis.salary_detected
        /\ analytics.income_analysis.salary_amounts = <<>>

(* the fallback was entered: two cash deposits and no salary credit *)
FallbackEnteredWithoutCandidates ==
    /\ IncomeAnalysed
    /\ FallbackEntered(analytics.transactions)

(* C7: a transaction is counted as a salary credit (its amount is in
   salary_amounts and salary_detected is true) exactly when its type is
   CREDIT and its description matches the salary keywords; two CREDIT rows of
   50,000 "SALARY CREDIT" on 2025-01-05 and 2025-02-05 in the period
   2025-01-01..2025-02-28 give salary_detected, an average of 50,000, two
   expected months and no missing month *)
C7_SalaryIffKeywordCredit ==
    IncomeAnalysed =>
        LET given == analytics.transactions
            income == analytics.income_analysis
            Counted(txn) ==
                /\ income.salary_detected
                /\ \E k \in 1..Len(income.salary_amounts) :
                      income.salary_amounts[k] = ParseAmount(txn.credit_amount)
        IN  /\ \A i \in 1..Len(given) :
                  Counted(given[i])
                      <=> /\ given[i].transaction_type = "CREDIT"
                          /\ AnyKeyword(Upper(given[i].description), SalaryKeywords)
            /\ /\ given = <<SalaryJan, SalaryFeb>>
               /\ account_info.statement_period_from = Date(2025, 1, 1)
               /\ account_info.statement_period_to = Date(2025, 2, 28)
               => /\ income.salary_detected
                  /\ income.average_monthly_salary = PyNum(Rupees(50000))
                  /\ income.salary_gaps.expected_months = 2
                  /\ income.salary_gaps.missing_months = <<>>

(* C8: for every statement period and every list of salary dates, the empty
   list and a list with no date inside the period included, missing_months
   is exactly the months of the period that hold no salary credit, and
   has_gaps is true exactly when missing_months is non-empty *)
C8_MissingMonthsExact ==
    /\ IncomeAnalysed
    /\ account_info.statement_period_from.kind = "date"
    /\ account_info.statement_period_to.kind = "date"
    =>  LET income == analytics.income_analysis
            gaps == income.salary_gaps
            with_salary == {MonthKey(income.salary_dates[i]) :
                                i \in 1..Len(income.salary_dates)}
            months == ExpectedMonths(MonthKey(account_info.statement_period_from),
                                     MonthKey(account_info.statement_period_to))
        IN  /\ gaps.missing_months
                  = SelectSeq(months, LAMBDA month : month \notin with_salary)
            /\ gaps.has_gaps <=> gaps.missing_months # <<>>

(* the salary credits the detection pass recognises, in statement order *)
DetectedSalaryCredits == SelectSeq(analytics.transactions, IsSalaryCredit)

(* among the salary credits whose date parses, salary_amounts holds exactly
   the first credit of every (date, amount, normalized description) *)
DatedSalariesDedupedByKey ==
    IncomeAnalysed =>
        LET dated == SelectSeq(DetectedSalaryCredits,
                               LAMBDA txn : txn.transaction_date.kind = "date")
            first == {i \in 1..Len(dated) :
                         \A j \in 1..(i - 1) : SalaryKey(dated[j]) # SalaryKey(dated[i])}
        IN  /\ Len(analytics.income_analysis.salary_amounts) = Cardinality(first)
            /\ \A i \in first :
                  \E k \in 1..Len(analytics.income_analysis.salary_amounts) :
                      analytics.income_analysis.salary_amounts[k]
                          = ParseAmount(dated[i].credit_amount)

(* the January salary and its repeat under another id were analysed together
   with the February salary: two amounts remain *)
RepeatCollapsedMonthsKept ==
    /\ IncomeAnalysed
    /\ analytics.transactions = <<SalaryJan, SalaryJanRepeat, SalaryFeb>>
    /\ analytics.income_analysis.salary_amounts
          = <<Rupees(50000), Rupees(50000)>>

(* C21: two detected salary credits are collapsed into one exactly when they
   have the same calendar date, the same amount and the same normalized
   description, whatever their transaction ids, so salary_amounts has one
   entry for every distinct (date, amount, description) among the detected
   salary credits; salary credits of one amount on different dates are all
   retained, one entry of that amount for each of their dates *)
C21_SalaryCollapsedIffSameKey ==
    IncomeAnalysed =>
        LET detected == DetectedSalaryCredits
            amounts == analytics.income_analysis.salary_amounts
            keys == {SalaryKey(detected[i]) : i \in 1..Len(detected)}
            DatesOf(a) == {detected[i].transaction_date : i \in
                              {j \in 1..Len(detected) :
                                  ParseAmount(detected[j].credit_amount) = a}}
            Retained(a) == Cardinality({k \in 1..Len(amounts) : amounts[k] = a})
        IN  /\ Len(amounts) = Cardinality(keys)
            /\ \A i \in 1..Len(detected) :
                  Retained(ParseAmount(detected[i].credit_amount))
                      >= Cardinality(DatesOf(ParseAmount(detected[i].credit_amount)))

----------------------------------------------------------------------------
(* SpecRoundTrip: the fraud analysis of statements made of one large credit,
   a run of small same-day credits and one debit some days later *)

MaxFillers == 50

Reverse(s) == [i \in 1..Len(s) |-> s[Len(s) + 1 - i]]

LargeCredit(amount) ==
    Txn("c1", Date(2025, 1, 1), <<"N","E","F","T"," ","C","R">>, "CREDIT",
        PyNum(amount), PyNone, PyNone)

SmallCredit(k) ==
    Txn("", Date(2025, 1, 1), <<"U","P","I">> \o Repeat("I", k), "CREDIT",
        PyNum(Rupees(10)), PyNone, PyNone)

LaterDebit(amount, gap) ==
    Txn("d1", Date(2025, 1, 1 + gap), <<"N","E","F","T"," ","D","R">>, "DEBIT",
        PyNone, PyNum(amount), PyNone)

RoundTripStatement(credit, debit, gap, fillers) ==
    <<LargeCredit(credit)>> \o [k \in 1..fillers |-> SmallCredit(k)]
        \o <<LaterDebit(debit, gap)>>

RoundTripInputs ==
    LET forward == {RoundTripStatement(credit, debit, gap, fillers) :
                        credit \in {Rupees(100000), Rupees(50000), Rupees(50001)},
                        debit \in {Rupees(98000), Rupees(90000), Rupees(48000)},
                        gap \in {0, 3, 5, 6, 10},
                        fillers \in 0..MaxFillers}
        two_debits == {<<LargeCredit(Rupees(100000)), LaterDebit(first, 3),
                         LaterDebit(second, 4)>> :
                          first \in {Rupees(98000), Rupees(48000)},
                          second \in {Rupees(99000), Rupees(48000)}}
    IN  forward \cup {Reverse(statement) : statement \in forward} \cup two_debits

InitRoundTrip ==
    /\ pc = "bank_start"
    /\ RiskIdle
    /\ AuxIdle
    /\ transactions \in RoundTripInputs
    /\ account_info = NoAccountInfo
    /\ customer_profile = NoProfile
    /\ analytics = NoAnalytics
    /\ bank_anomalies = NoBankAnomalies

SpecRoundTrip == InitRoundTrip /\ [][NextFraud]_vars

(* the credit of a row appears among the recorded instances *)
Reported(txn) ==
    \E k \in 1..Len(analytics.fraud_analysis.instances) :
        LET instance == analytics.fraud_analysis.instances[k]
        IN  /\ instance.credit_date = txn.transaction_date
            /\ instance.credit_amount = ParseAmount(txn.credit_amount)
            /\ instance.credit_description = txn.description

(* a DEBIT dated 1 to 5 days after the credit whose amount differs from the
   credit by less than 10% of the credit *)
LaterSimilarDebit(credit_txn, txn) ==
    /\ txn.transaction_type = "DEBIT"
    /\ txn.debit_amount.kind = "num"
    /\ txn.transaction_date.kind = "date"
    /\ DayNumber(txn.transaction_date) > DayNumber(credit_txn.transaction_date)
    /\ DayNumber(txn.transaction_date) - DayNumber(credit_txn.transaction_date) <= 5
    /\ Abs(credit_txn.credit_amount.v - txn.debit_amount.v) * 10
          < credit_txn.credit_amount.v

IsCreditOver50000(txn) ==
    /\ txn.transaction_type = "CREDIT"
    /\ txn.credit_amount.kind = "num"
    /\ txn.credit_amount.v > Rupees(50000)

(* C9 as stated: a CREDIT above 50,000 is reported as round-tripping whenever
   the statement holds a chronologically later DEBIT within 5 days whose
   amount is within 10% of the credit, and is not reported otherwise *)
C9_ReportedIffLaterDebit ==
    FraudAnalysed =>
        LET given == analytics.transactions
        IN  \A i \in 1..Len(given) :
                IsCreditOver50000(given[i]) =>
                    (Reported(given[i])
                        <=> \E j \in 1..Len(given) :
                                LaterSimilarDebit(given[i], given[j]))

(* C9 amended: a CREDIT above 50,000 is reported as round-tripping exactly
   when one of the 49 transactions that follow it in date order (rows of one
   date keeping their stored order) is a DEBIT dated 1 to 5 days later whose
   amount differs from the credit by less than 10% of the credit; a credit
   of 100,000 followed by a debit of 98,000 three days later is reported,
   the same pair ten days apart is not *)
C9_ReportedIffDebitInWindow ==
    FraudAnalysed =>
        LET sorted == SortByDate(analytics.transactions)
            pair(gap) == <<LargeCredit(Rupees(100000)),
                           LaterDebit(Rupees(98000), gap)>>
        IN  /\ \A i \in 1..Len(sorted) :
                  IsCreditOver50000(sorted[i]) =>
                      (Reported(sorted[i])
                          <=> \E j \in (i + 1)..(i + 49) :
                                  /\ j <= Len(sorted)
                                  /\ LaterSimilarDebit(sorted[i], sorted[j]))
            /\ analytics.transactions = pair(3)
                  => Len(analytics.fraud_analysis.instances) = 1
            /\ analytics.transactions = pair(10)
                  => analytics.fraud_analysis.instances = <<>>
            /\ pc = "converted" =>
                  CountType(bank_anomalies.high, "round_tripping")
                      = (IF analytics.fraud_analysis.instances = <<>> THEN 0 ELSE 1)

C9_Witness ==
    /\ pc = "converted"
    /\ transactions = RoundTripStatement(Rupees(100000), Rupees(98000), 3, 49)
    /\ analytics.transactions = transactions
    /\ analytics.fraud_analysis.instances = <<>>
    /\ bank_anomalies.high = <<>>

(* the instances recorded for the credit of a row *)
InstancesOf(txn) ==
    {k \in 1..Len(analytics.fraud_analysis.instances) :
        LET instance == analytics.fraud_analysis.instances[k]
        IN  /\ instance.credit_date = txn.transaction_date
            /\ instance.credit_amount = ParseAmount(txn.credit_amount)
            /\ instance.credit_description = txn.description}

(* C22: for each CREDIT above 50,000 at most one round-tripping instance is
   reported, and it pairs the credit with the earliest qualifying DEBIT among
   the next 50 transactions in chronological order; a qualifying debit at
   any of those 50 positions is found, one beyond them is not *)
C22_EarliestDebitOfNextFifty ==
    FraudAnalysed =>
        LET sorted == SortByDate(analytics.transactions)
            instances == analytics.fraud_analysis.instances
        IN  \A i \in 1..Len(sorted) :
                IsCreditOver50000(sorted[i]) =>
                    LET qualifying == {j \in (i + 1)..Min(i + 50, Len(sorted)) :
                                          LaterSimilarDebit(sorted[i], sorted[j])}
                        mine == InstancesOf(sorted[i])
                    IN  /\ Cardinality(mine) <= 1
                        /\ mine # {} <=> qualifying # {}
                        /\ \A k \in mine : \A j \in qualifying :
                              (\A h \in qualifying : j <= h) =>
                                  /\ instances[k].debit_date = sorted[j].transaction_date
                                  /\ instances[k].debit_amount
                                        = ParseAmount(sorted[j].debit_amount)

(* the same with the 49 rows the loop visits; the statement with two similar
   debits is paired with the first of them *)
EarliestDebitOfNextFortyNine ==
    FraudAnalysed =>
        LET sorted == SortByDate(analytics.transactions)
            instances == analytics.fraud_analysis.instances
        IN  /\ \A i \in 1..Len(sorted) :
                  IsCreditOver50000(sorted[i]) =>
                    LET qualifying == {j \in (i + 1)..Min(i + 49, Len(sorted)) :
                                          LaterSimilarDebit(sorted[i], sorted[j])}
                        mine == InstancesOf(sorted[i])
                    IN  /\ Cardinality(mine) <= 1
                        /\ mine # {} <=> qualifying # {}
                        /\ \A k \in mine : \A j \in qualifying :
                              (\A h \in qualifying : j <= h) =>
                                  /\ instances[k].debit_date = sorted[j].transaction_date
                                  /\ instances[k].debit_amount
                                        = ParseAmount(sorted[j].debit_amount)
            /\ analytics.transactions
                  = <<LargeCredit(Rupees(100000)), LaterDebit(Rupees(98000), 3),
                      LaterDebit(Rupees(99000), 4)>>
               => /\ Len(instances) = 1
                  /\ instances[1].debit_amount = Rupees(98000)

----------------------------------------------------------------------------
(* SpecObligations: the obligation analysis of a statement and the check of
   the EMIs against the loans the customer declared *)

EmiText == <<"B","A","J","A","J"," ","F","I","N","A","N","C","E"," ","E","M","I">>

EmiJan ==
    Txn("e1", Date(2025, 1, 5), EmiText, "DEBIT",
        PyNone, PyNum(Rupees(5000)), PyNum(Rupees(40000)))
EmiFeb ==
    Txn("e2", Date(2025, 2, 5), EmiText, "DEBIT",
        PyNone, PyNum(Rupees(5000)), PyNum(Rupees(35000)))
LoanNoId ==
    Txn("", Date(2025, 1, 7), <<"n","a","c","h"," ","h","d","f","c"," ","l","o","a","n">>,
        "DEBIT", PyNone, PyNum(Rupees(7500) + 400), PyNum(Rupees(30000)))
CardPayment ==
    Txn("e4", Date(2025, 1, 10),
        <<"H","D","F","C"," ","C","R","E","D","I","T"," ","C","A","R","D">>,
        "DEBIT", PyNone, PyNum(Rupees(12000)), PyNum(Rupees(18000)))
AtmWithdrawal ==
    Txn("e5", Date(2025, 1, 12), <<"A","T","M"," ","W","D","L">>, "DEBIT",
        PyNone, PyNum(Rupees(3000)), PyNum(Rupees(15000)))
LoanDisbursed ==
    Txn("e6", Date(2025, 1, 2), <<"L","O","A","N"," ","D","I","S","B">>, "CREDIT",
        PyNum(Rupees(100000)), PyNone, PyNum(Rupees(145000)))

ObligationTxnPool ==
    {EmiJan, EmiFeb, LoanNoId, CardPayment, AtmWithdrawal, LoanDisbursed}

Text(chars) == [kind |-> "str", text |-> chars]

ProfileInputs ==
    {NoProfile} \cup
    {[found |-> TRUE, existing_loan |-> declared] :
        declared \in {NoText, Text(<<>>), Text(<<"N","o">>), Text(<<"n","o">>),
                      Text(<<" ","N","O"," ">>), Text(<<"n","O">>),
                      Text(<<"Y","e","s">>), Text(<<"N","o","n","e">>)}}

InitObligations ==
    /\ pc = "bank_start"
    /\ RiskIdle
    /\ AuxIdle
    /\ transactions \in SeqOfAtMost(ObligationTxnPool, MaxTxns)
    /\ account_info = NoAccountInfo
    /\ customer_profile \in ProfileInputs
    /\ analytics = NoAnalytics
    /\ bank_anomalies = NoBankAnomalies

(* analyze_bank_statement, the call of _analyze_obligations *)
AnalyzeObligationsStep ==
    /\ pc = "fetched"
    /\ analytics' = [kind |-> "obligations_analysed",
                     deduplicated |-> analytics.deduplicated,
                     transactions |-> analytics.transactions,
                     obligation_analysis |-> AnalyzeObligations(analytics.transactions)]
    /\ pc' = "obligations_analysed"
    /\ UNCHANGED <<riskVars, auxVars, transactions, account_info, customer_profile,
                   bank_anomalies>>

(* _convert_bank_analytics_to_anomalies over the obligation analysis *)
ConvertObligationsStep ==
    /\ pc = "obligations_analysed"
    /\ bank_anomalies' = ConvertObligations(customer_profile,
                                            analytics.obligation_analysis)
    /\ pc' = "obligations_converted"
    /\ UNCHANGED <<riskVars, auxVars, transactions, account_info, customer_profile,
                   analytics>>

NextObligations ==
    \/ FetchTransactions
    \/ AnalyzeObligationsStep
    \/ ConvertObligationsStep

SpecObligations == InitObligations /\ [][NextObligations]_vars

AllBuckets ==
    bank_anomalies.critical \o bank_anomalies.high \o bank_anomalies.medium
        \o bank_anomalies.low

(* C10: when the profile declares existing_loan "No" in any letter case and
   the statement holds EMI debits, two debits of 5,000 to one lender for
   instance, the conversion yields exactly one critical undeclared_loans
   anomaly and no hidden_debt anomaly *)
C10_UndeclaredLoansOnce ==
    /\ pc = "obligations_converted"
    /\ customer_profile.found
    /\ customer_profile.existing_loan.kind = "str"
    /\ Upper(customer_profile.existing_loan.text) = <<"N","O">>
    /\ \E i \in 1..Len(analytics.transactions) :
          LET txn == analytics.transactions[i]
              text == Upper(txn.description)
          IN  /\ txn.transaction_type = "DEBIT"
              /\ txn.debit_amount.kind = "num" /\ txn.debit_amount.v > 0
              /\ ~AnyKeyword(text, CcKeywords)
              /\ AnyKeyword(text, EmiKeywords) \/ AnyKeyword(text, LenderKeywords)
    =>  /\ CountType(bank_anomalies.critical, "undeclared_loans") = 1
        /\ CountType(AllBuckets, "undeclared_loans") = 1
        /\ CountType(AllBuckets, "hidden_debt") = 0
        /\ \A i \in 1..Len(bank_anomalies.critical) :
              bank_anomalies.critical[i].severity = "critical"

C10_Witness ==
    /\ pc = "obligations_converted"
    /\ customer_profile = [found |-> TRUE, existing_loan |-> Text(<<"n","O">>)]
    /\ analytics.transactions = <<EmiJan, EmiFeb>>
    /\ Len(analytics.obligation_analysis.recurring_emis) = 1
    /\ bank_anomalies.critical = <<UndeclaredLoans(2, Rupees(10000))>>
    /\ bank_anomalies.high = <<>>

----------------------------------------------------------------------------
(* SpecCrossDocument: _check_cross_document_consistency over the user's
   payslips and bank statements *)

NetSalaryInputs ==
    {PyAbsent, PyNone, PyNum(0), PyNum(Rupees(40000)), PyNum(Rupees(50000)),
     PyNum(Rupees(70000)), PyNumStr(Rupees(70000)), PyStr}
GrossSalaryInputs ==
    {PyAbsent, PyNum(Rupees(60000)), PyNum(Rupees(85000)), PyNumStr(Rupees(85000)), PyStr}
NestedSalaryInputs ==
    {PyAbsent, PyNum(Rupees(70000)), PyDict(PyNum(Rupees(70000)), PyAbsent),
     PyDict(PyAbsent, PyNum(Rupees(60000)))}
StoredAnalyticsInputs ==
    {NoStoredAnalytics, BankAnalytics(<<Rupees(50000)>>),
     BankAnalytics(<<Rupees(50000), Rupees(80000)>>)}

(* what analyze_bank_statement gives for the bank statement when asked *)
FetchedAnalyticsInputs ==
    {AnalyticsRaised, AnalyticsError, BankAnalytics(<<>>),
     BankAnalytics(AnalyzeIncome(<<SalaryJan, SalaryMar>>, DateNone, DateNone).salary_amounts)}

UserDocumentInputs ==
    {UserDocuments(payslips, statements, PayslipFields(net, gross, salary), stored, mismatch) :
        payslips \in {<<>>, <<"p1">>, <<"p1", "p2">>, <<"p9">>},
        statements \in {<<>>, <<"b1">>},
        net \in NetSalaryInputs, gross \in GrossSalaryInputs,
        salary \in NestedSalaryInputs, stored \in StoredAnalyticsInputs,
        mismatch \in BOOLEAN}

InitCrossDocument ==
    /\ pc = "cross_start"
    /\ RiskIdle
    /\ BankIdle
    /\ document_type \in {"PAYSLIP", "BANK_STATEMENT", "PAN"}
    /\ document_id = ""
    /\ all_user_documents \in UserDocumentInputs
    /\ cross_doc_anomalies = NoCrossDoc
    /\ StoreIdle
    /\ summary = NoSummary
    /\ PipeIdle
    /\ ParseIdle

(* _check_cross_document_consistency; analytics keeps the bank analytics the
   comparison used *)
CheckCrossDocumentConsistencyStep ==
    /\ pc = "cross_start"
    /\ \E fetched \in FetchedAnalyticsInputs :
          LET result == CheckCrossDocumentConsistency(document_type, all_user_documents, fetched)
              bank_stmt_docs == all_user_documents.documents_by_type.BANK_STATEMENT
          IN  /\ cross_doc_anomalies' = result
              /\ analytics' =
                    IF bank_stmt_docs = <<>> THEN NoAnalytics
                    ELSE ResolveBankAnalytics(
                             GetDocument(all_user_documents, Head(bank_stmt_docs)).analytics,
                             fetched)
              /\ pc' = IF result.raised THEN "cross_raised" ELSE "cross_checked"
    /\ UNCHANGED <<riskVars, document_type, document_id, all_user_documents, storeVars, summary, pipeVars, parseVars,
                   transactions, account_info, customer_profile, bank_anomalies>>

NextCrossDocument == CheckCrossDocumentConsistencyStep

SpecCrossDocument == InitCrossDocument /\ [][NextCrossDocument]_vars

OverStatedAnomalies == SelectSeq(cross_doc_anomalies.high,
                                 LAMBDA a : a.type = "over_stated_income")

(* the declared net pay of the first payslip and the first salary credit of
   the first bank statement's analytics *)
DeclaredNetPay ==
    GetDocument(all_user_documents,
                Head(all_user_documents.documents_by_type.PAYSLIP)).extracted_fields.net_salary
DetectedSalaryCredit == SalaryAmountsOf(analytics)[1]

IncomeCompared ==
    /\ pc \in {"cross_checked", "cross_raised"}
    /\ document_type \in {"PAYSLIP", "BANK_STATEMENT"}
    /\ all_user_documents.documents_by_type.PAYSLIP # <<>>
    /\ all_user_documents.documents_by_type.BANK_STATEMENT # <<>>
    /\ DeclaredNetPay.kind = "num"
    /\ SalaryAmountsOf(analytics) # <<>>

(* C11: when a PAYSLIP or BANK_STATEMENT document is analysed and the
   payslip's declared net pay exceeds the bank statement's detected salary
   credit, the cross-document check yields exactly one HIGH
   over_stated_income anomaly whose difference is net pay minus bank credit
   (70,000 against 50,000: 20,000, 40%); when the net pay does not exceed
   the credit it yields none *)
C11_OverStatedIncome ==
    IncomeCompared =>
        /\ pc = "cross_checked"
        /\ IF DeclaredNetPay.v > DetectedSalaryCredit
           THEN /\ Len(OverStatedAnomalies) = 1
                /\ OverStatedAnomalies[1].severity = "high"
                /\ OverStatedAnomalies[1].document_comparison.difference
                      = DeclaredNetPay.v - DetectedSalaryCredit
                /\ (DeclaredNetPay.v = Rupees(70000) /\ DetectedSalaryCredit = Rupees(50000)
                      => LET c == OverStatedAnomalies[1].document_comparison
                         IN  /\ c.difference = Rupees(20000)
                             /\ c.difference_percentage.num * 5
                                   = c.difference_percentage.den * 2)
           ELSE OverStatedAnomalies = <<>>

----------------------------------------------------------------------------
(* SpecRollup: the application and user rollup requests over the stored
   risk analyses *)

MaxAnalyses == 3

StoredDocument(application_id, user_id) ==
    [application_id |-> application_id, user_id |-> user_id,
     status |-> "COMPLETED", risk_score |-> PyNone, risk_level |-> ""]

RollupDocuments ==
    [d \in {"d1", "d2", "d3"} |->
        CASE d = "d1" -> StoredDocument("a1", "u1")
          [] d = "d2" -> StoredDocument("a1", "u1")
          [] OTHER -> StoredDocument("a2", "u2")]

(* scores as the analyses store them, and values of other origin that the
   rollup guards against *)
StoredScoreInputs ==
    {PyNum(124), PyNum(626), PyNum(1000), PyNum(-50), PyNum(1200), PyNone}

StoredAnalysis(doc_id, stored_score, counts) ==
    [document_id |-> doc_id,
     user_id |-> RollupDocuments[doc_id].user_id,
     application_id |-> RollupDocuments[doc_id].application_id,
     risk_score |-> stored_score,
     risk_level |-> GetRiskLevel(ClampedScore(stored_score)),
     anomalies |-> counts,
     analysis_timestamp |-> 0]

AnomalyCountInputs ==
    {RiskAnomalyCounts(0, 2, 0, 1, PyNum(3)), RiskAnomalyCounts(1, 0, 1, 0, PyNone)}

StoredAnalysisPool ==
    {StoredAnalysis(d, s, c) :
        d \in {"d1", "d2", "d3"}, s \in StoredScoreInputs, c \in AnomalyCountInputs}

(* the analyses in stored order, stamped with the time of their insertion *)
Stamped(rows) == [i \in 1..Len(rows) |-> [rows[i] EXCEPT !.analysis_timestamp = i]]

InitRollup ==
    /\ pc = "rollup_start"
    /\ RiskIdle
    /\ BankIdle
    /\ CrossIdle
    /\ documents = RollupDocuments
    /\ \E n \in 0..MaxAnalyses :
          \E rows \in [1..n -> StoredAnalysisPool] : risk_analyses = Stamped(rows)
    /\ summary = NoSummary
    /\ PipeIdle
    /\ ParseIdle

GetApplicationRiskSummary ==
    /\ pc = "rollup_start"
    /\ \E application_id \in {"a1", "a2", "a3"} :
          LET analyses == AnalysesOfDocuments(
                              risk_analyses,
                              ApplicationDocumentIds(documents, application_id))
          IN  \E average \in IF analyses = <<>> THEN {0} ELSE AverageChoices(analyses),
                 weighted \in IF analyses = <<>> THEN {0} ELSE WeightedChoices(analyses) :
                 summary' = [request |-> "application", id |-> application_id,
                             response |-> ApplicationRiskSummary(
                                              documents, risk_analyses, application_id,
                                              average, weighted)]
    /\ pc' = "rollup_done"
    /\ UNCHANGED <<riskVars, bankVars, crossVars, storeVars, pipeVars, parseVars>>

GetUserRiskSummary ==
    /\ pc = "rollup_start"
    /\ \E user_id \in {"u1", "u2", "u3"} :
          summary' = [request |-> "user", id |-> user_id,
                      response |-> UserRiskSummary(risk_analyses, user_id)]
    /\ pc' = "rollup_done"
    /\ UNCHANGED <<riskVars, bankVars, crossVars, storeVars, pipeVars, parseVars>>

NextRollup ==
    \/ GetApplicationRiskSummary
    \/ GetUserRiskSummary

SpecRollup == InitRollup /\ [][NextRollup]_vars

(* the stored risk results the request is about *)
ResultsOfRequest ==
    IF summary.request = "user"
    THEN SelectSeq(risk_analyses, LAMBDA a : a.user_id = summary.id)
    ELSE SelectSeq(risk_analyses,
                   LAMBDA a : documents[a.document_id].application_id = summary.id)

(* C12: for every non-empty set of stored risk results of a user or of an
   application, the rollup request returns a report whose final_risk_score
   is the maximum of the stored risk scores, each clamped to [0, 100] *)
C12_FinalScoreIsMaximum ==
    (pc = "rollup_done" /\ ResultsOfRequest # <<>>) =>
        /\ summary.response.kind = "report"
        /\ \A i \in 1..Len(ResultsOfRequest) :
              summary.response.final_risk_score
                 >= 10 * ClampedScore(ResultsOfRequest[i].risk_score)
        /\ \E i \in 1..Len(ResultsOfRequest) :
              summary.response.final_risk_score
                 = 10 * ClampedScore(ResultsOfRequest[i].risk_score)

(* the stored results that no later result of the same document supersedes *)
RECURSIVE LatestResults(_)
LatestResults(results) ==
    IF results = <<>> THEN <<>>
    ELSE IF \E j \in 2..Len(results) : results[j].document_id = Head(results).document_id
         THEN LatestResults(Tail(results))
         ELSE <<Head(results)>> \o LatestResults(Tail(results))

ApplicationReported ==
    /\ pc = "rollup_done"
    /\ summary.request = "application"
    /\ summary.response.kind = "report"

(* C30: after any sequence of analyses and re-analyses of an application's
   documents, the application rollup counts each document once and uses only
   its latest result: total_documents equals the number of distinct analysed
   documents, and a result superseded by a later re-analysis of the same
   document no longer contributes to the average, maximum or final score *)
C30_RollupUsesLatestResultPerDocument ==
    ApplicationReported =>
        LET latest == LatestResults(ResultsOfRequest)
        IN  /\ summary.response.total_documents = Len(latest)
            /\ summary.response.average_risk_score \in AverageChoices(latest)
            /\ summary.response.max_risk_score = MaxRiskScore(latest) * 10
            /\ summary.response.final_risk_score = FinalRiskScore(latest)

(* what holds instead: every stored result of the application's documents is
   counted and scored, superseded or not *)
RollupUsesEveryStoredResult ==
    ApplicationReported =>
        /\ summary.response.total_documents = Len(ResultsOfRequest)
        /\ summary.response.average_risk_score \in AverageChoices(ResultsOfRequest)
        /\ \A i \in 1..Len(ResultsOfRequest) :
              summary.response.final_risk_score
                 >= 10 * ClampedScore(ResultsOfRequest[i].risk_score)

(* d1 was analysed with a score of 100 and then again with 12.4: the rollup
   reports two documents and a final score of 100 *)
SupersededResultCounted ==
    /\ ApplicationReported
    /\ Len(risk_analyses) = 2
    /\ risk_analyses[1].document_id = "d1" /\ risk_analyses[1].risk_score = PyNum(1000)
    /\ risk_analyses[2].document_id = "d1" /\ risk_analyses[2].risk_score = PyNum(124)
    /\ summary.response.total_documents = 2
    /\ summary.response.final_risk_score = 10 * ClampedScore(PyNum(1000))

----------------------------------------------------------------------------
(* SpecEmiTotal: the obligation analysis over statements with several EMI
   debits per lender *)

MaxEmiRows == 4

EmiMar ==
    Txn("e3", Date(2025, 3, 5), EmiText, "DEBIT",
        PyNone, PyNum(Rupees(5000)), PyNum(Rupees(30000)))
(* the same lender and the same whole amount, 40 paise more *)
EmiAprOdd ==
    Txn("e7", Date(2025, 4, 5), EmiText, "DEBIT",
        PyNone, PyNum(Rupees(5000) + 400), PyNum(Rupees(25000)))
LoanNoIdFeb ==
    Txn("", Date(2025, 2, 7), <<"n","a","c","h"," ","h","d","f","c"," ","l","o","a","n">>,
        "DEBIT", PyNone, PyNum(Rupees(7500) + 400), PyNum(Rupees(22000)))
(* a single debit to a third lender *)
IciciOnce ==
    Txn("e8", Date(2025, 1, 20), <<"I","C","I","C","I"," ","E","M","I">>, "DEBIT",
        PyNone, PyNum(Rupees(9000)), PyNum(Rupees(10000)))

(* the January debit as a second, overlapping statement stored it: the same
   row under another transaction id *)
EmiJanCopy ==
    Txn("e9", Date(2025, 1, 5), EmiText, "DEBIT",
        PyNone, PyNum(Rupees(5000)), PyNum(Rupees(40000)))

EmiTxnPool ==
    {EmiJan, EmiFeb, EmiMar, EmiAprOdd, LoanNoId, LoanNoIdFeb, IciciOnce, EmiJanCopy}

InitEmiTotal ==
    /\ pc = "bank_start"
    /\ RiskIdle
    /\ AuxIdle
    /\ transactions \in SeqOfAtMost(EmiTxnPool, MaxEmiRows)
    /\ account_info = NoAccountInfo
    /\ customer_profile = NoProfile
    /\ analytics = NoAnalytics
    /\ bank_anomalies = NoBankAnomalies

NextEmiTotal ==
    \/ FetchTransactions
    \/ AnalyzeObligationsStep

SpecEmiTotal == InitEmiTotal /\ [][NextEmiTotal]_vars

(* the detected EMI debits of one lender and one whole amount *)
EmiGroup(emis, key) == {i \in 1..Len(emis) : GroupKey(emis[i]) = key}

EmiGroupAmounts(emis, key) == {emis[i].amount : i \in EmiGroup(emis, key)}

(* the groups of two or more debits of one amount *)
RecurringKeys(emis) ==
    {key \in {GroupKey(emis[i]) : i \in 1..Len(emis)} :
        /\ Cardinality(EmiGroup(emis, key)) >= 2
        /\ Cardinality(EmiGroupAmounts(emis, key)) = 1}

RECURSIVE SumOfGroups(_, _)
SumOfGroups(emis, keys) ==
    IF keys = {} THEN 0
    ELSE LET key == CHOOSE k \in keys : TRUE
         IN  (CHOOSE a \in EmiGroupAmounts(emis, key) : TRUE)
                + SumOfGroups(emis, keys \ {key})

(* C18: total_monthly_emi_obligation is the sum, over the groups of EMI debits
   of one lender and one amount rounded to the unit that hold at least two
   debits, all of one amount, of that amount taken once; the other groups add
   nothing. *)
C18_EmiTotalIsSumOfGroupAmounts ==
    pc = "obligations_analysed" =>
        analytics.obligation_analysis.total_monthly_emi_obligation
            = SumOfGroups(analytics.obligation_analysis.detected_emis,
                          RecurringKeys(analytics.obligation_analysis.detected_emis))

(* two recurring groups next to nothing else: 5,000 twice and 7,500.40 twice *)
C18_Witness ==
    /\ pc = "obligations_analysed"
    /\ Len(analytics.obligation_analysis.detected_emis) = 4
    /\ Len(analytics.obligation_analysis.recurring_emis) = 2
    /\ analytics.obligation_analysis.total_monthly_emi_obligation
          = Rupees(5000) + Rupees(7500) + 400

(* the retained EMI debits that make up a recurring EMI *)
OccurrencesOf(recurring) ==
    {i \in 1..Len(analytics.obligation_analysis.detected_emis) :
        LET emi == analytics.obligation_analysis.detected_emis[i]
        IN  /\ emi.lender_name = recurring.lender_name
            /\ emi.amount = recurring.emi_amount}

(* C25: after EMI deduplication no two retained EMI transactions share a
   transaction_id and no two share the same (date, amount rounded to the
   nearest unit, normalized description), so a debit stored by two
   overlapping source documents is counted once and cannot by itself form a
   recurring EMI group *)
C25_EmisUniqueByIdAndKey ==
    pc = "obligations_analysed" =>
        LET emis == analytics.obligation_analysis.detected_emis
            recurring == analytics.obligation_analysis.recurring_emis
        IN  /\ \A i, j \in 1..Len(emis) :
                  i # j /\ emis[i].transaction_id # ""
                      => emis[i].transaction_id # emis[j].transaction_id
            /\ \A i, j \in 1..Len(emis) : i # j => EmiKey(emis[i]) # EmiKey(emis[j])
            /\ \A k \in 1..Len(recurring) :
                  Cardinality({EmiKey(emis[i]) : i \in OccurrencesOf(recurring[k])}) >= 2

(* what the two passes of the loop do ensure: the retained rows that carry
   an id have different ids, and those without an id have different keys *)
EmisUniqueByIdOrElseKey ==
    pc = "obligations_analysed" =>
        LET emis == analytics.obligation_analysis.detected_emis
        IN  \A i, j \in 1..Len(emis) :
                i # j =>
                    /\ emis[i].transaction_id # ""
                          => emis[i].transaction_id # emis[j].transaction_id
                    /\ emis[i].transaction_id = "" /\ emis[j].transaction_id = ""
                          => EmiKey(emis[i]) # EmiKey(emis[j])

(* the one January debit, stored twice, became a recurring EMI of 5,000 *)
CopiedDebitRecurring ==
    /\ pc = "obligations_analysed"
    /\ analytics.transactions = <<EmiJan, EmiJanCopy>>
    /\ Len(analytics.obligation_analysis.recurring_emis) = 1
    /\ analytics.obligation_analysis.total_monthly_emi_obligation = Rupees(5000)

----------------------------------------------------------------------------
(* SpecParseAmount: _parse_amount over the values a transaction row can
   hold: None, numbers, short texts of digits, separators, currency signs and
   letters, the amounts written with Indian digit grouping, other objects *)

MaxAmountLen == 3

AmountChars == {"0", "1", ",", ".", "₹", " ", "-", "x", "n", "a"}

AmountTexts == UNION {[1..k -> AmountChars] : k \in 0..MaxAmountLen}

GroupedRupees == <<"₹", "1", ",", "2", "3", ",", "4", "5", "6", ".", "0", "0">>
GroupedThousands == <<"1", ",", "2", "3", "4">>
Garbage == <<"g", "a", "r", "b", "a", "g", "e">>

AmountValueInputs ==
    {PyNone, PyNum(123450), PyNum(0), PyNum(Rupees(5000)), PyHuge, PyNaN,
     PyList(2), PyText(GroupedRupees), PyText(GroupedThousands), PyText(Garbage)}
    \cup {PyText(chars) : chars \in AmountTexts}

InitParseAmount ==
    /\ pc = "amount_start"
    /\ RiskIdle
    /\ BankIdle
    /\ CrossIdle
    /\ StoreIdle
    /\ summary = NoSummary
    /\ extraction_results = <<>>
    /\ tasks = NoTasks
    /\ last_write = "none"
    /\ amount_value \in AmountValueInputs
    /\ parsed_amount = NoAmount

ParseAmountStep ==
    /\ pc = "amount_start"
    /\ parsed_amount' = ParseAmountValue(amount_value)
    /\ pc' = "amount_parsed"
    /\ UNCHANGED <<riskVars, bankVars, crossVars, storeVars, summary, pipeVars,
                   amount_value>>

NextParseAmount == ParseAmountStep

SpecParseAmount == InitParseAmount /\ [][NextParseAmount]_vars

(* the values float() takes: a number, or a text that is a numeral once
   cleaned *)
ParsableAmount ==
    \/ amount_value.kind \in {"num", "huge", "nan"}
    \/ /\ amount_value.kind = "text"
       /\ ~FloatOfText(CleanedAmount(amount_value.text)).raised

(* C19: _parse_amount raises for no value and gives 0.0 for every value it
   cannot parse; "₹1,23,456.00" gives 123456.0, "1,234" gives 1234.0, 123.45
   gives 123.45, None and "garbage" give 0.0. *)
C19_ParseAmountNeverRaises ==
    pc = "amount_parsed" =>
        /\ ~parsed_amount.raised
        /\ ~ParsableAmount => parsed_amount = FloatZero
        /\ amount_value = PyText(GroupedRupees) => parsed_amount = Float(123456, 0)
        /\ amount_value = PyText(GroupedThousands) => parsed_amount = Float(1234, 0)
        /\ amount_value = PyNum(123450) => parsed_amount = Float(12345, 2)
        /\ amount_value = PyNone => parsed_amount = FloatZero
        /\ amount_value = PyText(Garbage) => parsed_amount = FloatZero

----------------------------------------------------------------------------
(* SpecDti: _calculate_dti over the salary lists and the obligations an
   analysis can hand it *)

(* a ratio of amounts does not depend on their unit: the unit used for the
   products below is the largest one that divides the obligations and both
   half sums *)
DtiUnit(obligations, first_half, second_half) ==
    LET g == Gcd(obligations, Gcd(SumSeq(first_half), SumSeq(second_half)))
    IN  IF g = 0 THEN 1 ELSE g

(* monthly_obligations / statistics.mean(half) * 100 as the fraction n / d,
   and 0 when the mean is not positive; the amounts are given in units *)
HalfDti(obligations, half_sum, half_len) ==
    IF half_sum > 0 THEN [n |-> 100 * obligations * half_len, d |-> half_sum]
    ELSE [n |-> 0, d |-> 1]

(* dti_change = second_half_dti - first_half_dti, as a fraction *)
DtiChange(salary_amounts, obligations) ==
    LET half == Len(salary_amounts) \div 2
        first_half == SubSeq(salary_amounts, 1, half)
        second_half == SubSeq(salary_amounts, half + 1, Len(salary_amounts))
        unit == DtiUnit(obligations, first_half, second_half)
        first == HalfDti(obligations \div unit, SumSeq(first_half) \div unit,
                         Len(first_half))
        second == HalfDti(obligations \div unit, SumSeq(second_half) \div unit,
                          Len(second_half))
    IN  [n |-> second.n * first.d - first.n * second.d, d |-> first.d * second.d]

(* the floats of the two quotients carry a rounding error, so a change that
   is 5 exactly is computed as 5.0 or as a float next to it: float_error is
   the side (-1, 0, 1) the computed difference lies on *)
FloatErrors == {-1, 0, 1}

IsIncreasingOnAnyRise(change, float_error) == change.n > 0

(* is_increasing = dti_change > 5 *)
IsIncreasing(change, float_error) ==
    \/ change.n > 5 * change.d
    \/ change.n = 5 * change.d /\ float_error > 0

(* abs(dti_change) <= 5 *)
WithinFivePoints(change, float_error) ==
    /\ ~ (change.n > 5 * change.d \/ (change.n = 5 * change.d /\ float_error > 0))
    /\ ~ (change.n < -5 * change.d \/ (change.n = -5 * change.d /\ float_error < 0))

NoTrend == [kind |-> "none", is_increasing |-> FALSE, trend |-> "NONE"]

(* dti_trend: None with fewer than four salary amounts or without income *)
DtiTrend(income_analysis, obligation_analysis, float_error) ==
    LET actual_net_income == OrZero(income_analysis.average_monthly_salary).v
        salary_amounts == income_analysis.salary_amounts
        monthly_obligations ==
            SumSeq(obligation_analysis.recurring_emis)
                + obligation_analysis.average_monthly_cc_payment
        change == DtiChange(salary_amounts, monthly_obligations)
    IN  IF Len(salary_amounts) >= 4 /\ actual_net_income > 0
        THEN [kind |-> "trend",
              is_increasing |-> IsIncreasing(change, float_error),
              trend |-> IF IsIncreasing(change, float_error) THEN "INCREASING"
                        ELSE IF WithinFivePoints(change, float_error) THEN "STABLE"
                        ELSE "DECREASING"]
        ELSE NoTrend

(* _calculate_dti; actual_dti is kept as its comparisons with 50 and 30, and
   the rounded percentages of the result, which nothing reads, are left out *)
CalculateDti(income_analysis, obligation_analysis, float_error) ==
    LET actual_net_income == OrZero(income_analysis.average_monthly_salary).v
        actual_monthly_obligations == obligation_analysis.total_monthly_obligations
        above50 == actual_net_income > 0
                      /\ 2 * actual_monthly_obligations > actual_net_income
        above30 == actual_net_income > 0
                      /\ 10 * actual_monthly_obligations > 3 * actual_net_income
    IN  [actual_net_income |-> actual_net_income,
         actual_monthly_obligations |-> actual_monthly_obligations,
         dti_trend |-> DtiTrend(income_analysis, obligation_analysis, float_error),
         flags |-> IF above50 THEN <<"HIGH_DTI">> ELSE <<>>,
         dti_status |-> IF above50 THEN "HIGH_RISK"
                        ELSE IF above30 THEN "MEDIUM_RISK" ELSE "LOW_RISK"]

MaxSalaries == 4

DtiSalaryInputs ==
    SeqOfAtMost({Rupees(40000), Rupees(30000), Rupees(50000)}, MaxSalaries)

(* the recurring EMI amounts and the average card payment of an obligation
   analysis *)
DtiObligationInputs ==
    {[recurring_emis |-> emis, average_monthly_cc_payment |-> cc,
      total_monthly_obligations |-> Round2(SumSeq(emis) + cc)] :
        emis \in {<<>>, <<Rupees(6000)>>, <<Rupees(2000), Rupees(1000)>>,
                  <<Rupees(15000)>>, <<Rupees(30000)>>},
        cc \in {0, Rupees(3000)}}

(* the income analysis of a salary list, as _analyze_income returns it *)
DtiIncomeAnalysis(salary_amounts) ==
    [salary_amounts |-> salary_amounts,
     average_monthly_salary |->
        IF salary_amounts # <<>> /\ SumSeq(salary_amounts) # 0
        THEN PyNum(RoundedMean(salary_amounts)) ELSE PyNone]

InitDti ==
    /\ pc = "dti_start"
    /\ RiskIdle
    /\ AuxIdle
    /\ transactions = <<>>
    /\ account_info = NoAccountInfo
    /\ customer_profile = NoProfile
    /\ bank_anomalies = NoBankAnomalies
    /\ analytics \in {[kind |-> "obligations_analysed",
                        income_analysis |-> DtiIncomeAnalysis(salary_amounts),
                        obligation_analysis |-> obligation_analysis] :
                          salary_amounts \in DtiSalaryInputs,
                          obligation_analysis \in DtiObligationInputs}

(* analyze_bank_statement, the call of _calculate_dti *)
CalculateDtiStep ==
    /\ pc = "dti_start"
    /\ \E float_error \in FloatErrors :
          analytics' = [kind |-> "dti_analysed",
                        income_analysis |-> analytics.income_analysis,
                        obligation_analysis |-> analytics.obligation_analysis,
                        dti_analysis |-> CalculateDti(analytics.income_analysis,
                                                      analytics.obligation_analysis,
                                                      float_error)]
    /\ pc' = "dti_analysed"
    /\ UNCHANGED <<riskVars, auxVars, transactions, account_info, customer_profile,
                   bank_anomalies>>

NextDti == CalculateDtiStep

SpecDti == InitDti /\ [][NextDti]_vars

(* a trend was computed: the salary list split into its halves, the
   obligations held fixed *)
TrendReported == pc = "dti_analysed" /\ analytics.dti_analysis.dti_trend.kind = "trend"

(* second-half DTI minus first-half DTI minus `points`, multiplied by both
   half incomes (in thousands of rupees, the half sums being positive):
   its sign is that of the difference between the rise and `points` *)
RiseBeyond(points) ==
    LET salary_amounts == analytics.income_analysis.salary_amounts
        half == Len(salary_amounts) \div 2
        first_sum == SumSeq(SubSeq(salary_amounts, 1, half)) \div Rupees(1000)
        second_sum == SumSeq(SubSeq(salary_amounts, half + 1, Len(salary_amounts)))
                          \div Rupees(1000)
        obligations == (SumSeq(analytics.obligation_analysis.recurring_emis)
                          + analytics.obligation_analysis.average_monthly_cc_payment)
                          \div Rupees(1000)
    IN  100 * obligations * (Len(salary_amounts) - half) * first_sum
          - 100 * obligations * half * second_sum
          - points * first_sum * second_sum

(* C24 as stated: with the salary list split into a first and a second half
   and the monthly obligations held fixed, the trend is INCREASING exactly
   when the second-half DTI exceeds the first-half DTI by 5 points or more,
   and otherwise STABLE or DECREASING *)
C24_IncreasingFromFivePoints ==
    TrendReported =>
        LET trend == analytics.dti_analysis.dti_trend.trend
        IN  /\ trend = "INCREASING" <=> RiseBeyond(5) >= 0
            /\ trend # "INCREASING" => trend \in {"STABLE", "DECREASING"}

(* C24 amended: whenever a trend is reported (at least four salary amounts
   and a positive average salary), it is INCREASING if the second-half DTI
   exceeds the first-half DTI by more than 5 points and never if it exceeds
   it by less; otherwise it is STABLE for a change within 5 points either
   way and DECREASING for a fall of more than 5 points; a rise of exactly 5
   points is STABLE unless the rounding of the two float quotients carries
   the computed difference above 5.0, and is_increasing agrees with the
   trend *)
C24_IncreasingAboveFivePoints ==
    TrendReported =>
        LET dti_trend == analytics.dti_analysis.dti_trend
        IN  /\ RiseBeyond(5) > 0 => dti_trend.trend = "INCREASING"
            /\ RiseBeyond(5) < 0 => dti_trend.trend # "INCREASING"
            /\ RiseBeyond(5) < 0 /\ RiseBeyond(-5) > 0 => dti_trend.trend = "STABLE"
            /\ RiseBeyond(-5) < 0 => dti_trend.trend = "DECREASING"
            /\ RiseBeyond(5) = 0 => dti_trend.trend \in {"STABLE", "INCREASING"}
            /\ RiseBeyond(-5) = 0 => dti_trend.trend \in {"STABLE", "DECREASING"}
            /\ dti_trend.is_increasing <=> dti_trend.trend = "INCREASING"

(* salaries of 40,000 twice and then 30,000 twice against obligations of
   6,000: 15 and 20 points, a rise of exactly 5, reported as STABLE *)
C24_Witness ==
    /\ TrendReported
    /\ analytics.income_analysis.salary_amounts
          = <<Rupees(40000), Rupees(40000), Rupees(30000), Rupees(30000)>>
    /\ analytics.obligation_analysis.recurring_emis = <<Rupees(6000)>>
    /\ analytics.obligation_analysis.average_monthly_cc_payment = 0
    /\ RiseBeyond(5) = 0
    /\ analytics.dti_analysis.dti_trend.trend = "STABLE"
    /\ ~analytics.dti_analysis.dti_trend.is_increasing

----------------------------------------------------------------------------
(* SpecPipeline: one extraction request for a document, the background risk
   analysis it schedules, and one request to the risk analysis endpoint for
   the same document, interleaved at their awaits *)

PipelineDocument ==
    [status |-> "UPLOADED", extracted_data |-> "none",
     risk_score |-> PyNone, risk_level |-> "NONE"]

ExtractionTask == [pc |-> "ext_start", inserted |-> FALSE, updated |-> FALSE,
                   response |-> 0]
NoRiskRecord == [risk_score |-> PyNone, risk_level |-> "NONE"]
BackgroundTask == [pc |-> "bg_idle", scheduled |-> FALSE, runs |-> 0,
                   record |-> NoRiskRecord, inserted |-> "pending",
                   updated |-> "pending", logged |-> 0]
EndpointTask == [pc |-> "api_start", record |-> NoRiskRecord, response |-> 0]

(* what analyze_risk returns: a score in tenths and its level *)
RiskResult(score) == [risk_score |-> PyNum(score), risk_level |-> GetRiskLevel(score)]
RiskResultInputs == {RiskResult(124), RiskResult(626), RiskResult(800)}

(* the risk fields of the record run_risk_analysis_async stores: those of the
   result as they are *)
BackgroundRiskRecord(result) ==
    [risk_score |-> result.risk_score, risk_level |-> result.risk_level]

(* the risk fields of the record the endpoint stores: the score as a float
   within 0..100, 0 when it is no number, the level MEDIUM when it is none of
   the four *)
EndpointRiskRecord(result) ==
    [risk_score |-> IF result.risk_score.kind = "num"
                    THEN PyNum(Max(0, Min(1000, result.risk_score.v)))
                    ELSE PyNum(0),
     risk_level |-> IF result.risk_level \in {"CRITICAL", "HIGH", "MEDIUM", "LOW"}
                    THEN result.risk_level ELSE "MEDIUM"]

(* an update that sets the score alone *)
SetRiskScoreOnly(doc, record) == [doc EXCEPT !.risk_score = record.risk_score]

(* documents.update_one with $set of risk_score and risk_level: one atomic
   update of the document *)
SetRisk(doc, record) ==
    [doc EXCEPT !.risk_score = record.risk_score, !.risk_level = record.risk_level]

(* a handler that also marks the document as failed *)
BackgroundFailureMarksFailed(doc) == [doc EXCEPT !.status = "FAILED"]

(* the except clause of run_risk_analysis_async: two log lines, the document
   is not touched *)
BackgroundFailure(doc) == doc

(* the except clause of ocr_and_extract: status FAILED *)
ExtractionFailure(doc) == [doc EXCEPT !.status = "FAILED"]

InitPipeline ==
    /\ pc = "pipeline"
    /\ RiskIdle
    /\ BankIdle
    /\ CrossIdle
    /\ documents = [d1 |-> PipelineDocument]
    /\ risk_analyses = <<>>
    /\ summary = NoSummary
    /\ extraction_results = <<>>
    /\ tasks = [ext |-> ExtractionTask, bg |-> BackgroundTask, api |-> EndpointTask]
    /\ last_write = "none"
    /\ ParseIdle

pipeFrame == <<pc, riskVars, bankVars, crossVars, summary, parseVars>>

(* ocr_and_extract: the document is found and set to PROCESSING *)
ExtractStart ==
    /\ tasks.ext.pc = "ext_start"
    /\ documents' = [documents EXCEPT !.d1.status = "PROCESSING"]
    /\ tasks' = [tasks EXCEPT !.ext.pc = "ext_extracting"]
    /\ UNCHANGED <<pipeFrame, risk_analyses, extraction_results, last_write>>

(* steps 1 to 6: OCR, classification, extraction, validation; any of them may
   raise, and the handler then sets FAILED and answers 500 *)
ExtractRun ==
    /\ tasks.ext.pc = "ext_extracting"
    /\ \E ok \in BOOLEAN :
          IF ok
          THEN /\ tasks' = [tasks EXCEPT !.ext.pc = "ext_writing"]
               /\ UNCHANGED documents
          ELSE /\ tasks' = [tasks EXCEPT !.ext.pc = "ext_done", !.ext.response = 500]
               /\ documents' = [documents EXCEPT !.d1 = ExtractionFailure(@)]
    /\ UNCHANGED <<pipeFrame, risk_analyses, extraction_results, last_write>>

(* step 7, first operation of the gather: extraction_results.insert_one *)
ExtractInsert ==
    /\ tasks.ext.pc = "ext_writing"
    /\ ~tasks.ext.inserted
    /\ extraction_results' = Append(extraction_results, [document_id |-> "d1"])
    /\ tasks' = [tasks EXCEPT !.ext.inserted = TRUE]
    /\ UNCHANGED <<pipeFrame, documents, risk_analyses, last_write>>

(* step 7, second operation of the gather: the document update with status
   COMPLETED and the extracted data *)
ExtractUpdate ==
    /\ tasks.ext.pc = "ext_writing"
    /\ ~tasks.ext.updated
    /\ documents' = [documents EXCEPT !.d1.status = "COMPLETED",
                                      !.d1.extracted_data = "fields"]
    /\ tasks' = [tasks EXCEPT !.ext.updated = TRUE]
    /\ UNCHANGED <<pipeFrame, risk_analyses, extraction_results, last_write>>

(* step 8: update_user_aggregation, which re-raises its failures *)
ExtractAggregate ==
    /\ tasks.ext.pc = "ext_writing"
    /\ tasks.ext.inserted /\ tasks.ext.updated
    /\ \E ok \in BOOLEAN :
          IF ok
          THEN /\ tasks' = [tasks EXCEPT !.ext.pc = "ext_scheduling"]
               /\ UNCHANGED documents
          ELSE /\ tasks' = [tasks EXCEPT !.ext.pc = "ext_done", !.ext.response = 500]
               /\ documents' = [documents EXCEPT !.d1 = ExtractionFailure(@)]
    /\ UNCHANGED <<pipeFrame, risk_analyses, extraction_results, last_write>>

(* step 9 and the response: background_tasks.add_task, then the answer *)
ExtractSchedule ==
    /\ tasks.ext.pc = "ext_scheduling"
    /\ tasks' = [tasks EXCEPT !.bg.scheduled = TRUE, !.ext.response = 200,
                              !.ext.pc = "ext_done"]
    /\ UNCHANGED <<pipeFrame, storeVars, extraction_results, last_write>>

(* the scheduled task starts once the response has been sent *)
BackgroundStart ==
    /\ tasks.bg.pc = "bg_idle"
    /\ tasks.bg.scheduled
    /\ tasks.ext.pc = "ext_done" /\ tasks.ext.response = 200
    /\ tasks' = [tasks EXCEPT !.bg.pc = "bg_analyzing", !.bg.runs = @ + 1]
    /\ UNCHANGED <<pipeFrame, storeVars, extraction_results, last_write>>

(* run_risk_analysis_async up to the risk record: analyze_risk returns a
   result or raises *)
BackgroundAnalyze ==
    /\ tasks.bg.pc = "bg_analyzing"
    /\ \/ \E result \in RiskResultInputs :
             /\ tasks' = [tasks EXCEPT !.bg.pc = "bg_writing",
                                       !.bg.record = BackgroundRiskRecord(result)]
             /\ UNCHANGED documents
       \/ /\ tasks' = [tasks EXCEPT !.bg.pc = "bg_done", !.bg.logged = @ + 1]
          /\ documents' = [documents EXCEPT !.d1 = BackgroundFailure(@)]
    /\ UNCHANGED <<pipeFrame, risk_analyses, extraction_results, last_write>>

(* first operation of the task's gather: risk_analyses.insert_one *)
BackgroundInsert ==
    /\ tasks.bg.pc = "bg_writing"
    /\ tasks.bg.inserted = "pending"
    /\ \E ok \in BOOLEAN :
          IF ok
          THEN /\ risk_analyses' = Append(risk_analyses, tasks.bg.record)
               /\ tasks' = [tasks EXCEPT !.bg.inserted = "ok"]
          ELSE /\ tasks' = [tasks EXCEPT !.bg.inserted = "failed"]
               /\ UNCHANGED risk_analyses
    /\ UNCHANGED <<pipeFrame, documents, extraction_results, last_write>>

(* second operation of the task's gather: the document's risk fields *)
BackgroundUpdate ==
    /\ tasks.bg.pc = "bg_writing"
    /\ tasks.bg.updated = "pending"
    /\ \E ok \in BOOLEAN :
          IF ok
          THEN /\ documents' = [documents EXCEPT !.d1 = SetRisk(@, tasks.bg.record)]
               /\ last_write' = "bg"
               /\ tasks' = [tasks EXCEPT !.bg.updated = "ok"]
          ELSE /\ tasks' = [tasks EXCEPT !.bg.updated = "failed"]
               /\ UNCHANGED <<documents, last_write>>
    /\ UNCHANGED <<pipeFrame, risk_analyses, extraction_results>>

(* the end of the task: a failed operation of the gather is logged *)
BackgroundFinish ==
    /\ tasks.bg.pc = "bg_writing"
    /\ tasks.bg.inserted # "pending" /\ tasks.bg.updated # "pending"
    /\ IF tasks.bg.inserted = "failed" \/ tasks.bg.updated = "failed"
       THEN /\ tasks' = [tasks EXCEPT !.bg.pc = "bg_done", !.bg.logged = @ + 1]
            /\ documents' = [documents EXCEPT !.d1 = BackgroundFailure(@)]
       ELSE /\ tasks' = [tasks EXCEPT !.bg.pc = "bg_done"]
            /\ UNCHANGED documents
    /\ UNCHANGED <<pipeFrame, risk_analyses, extraction_results, last_write>>

(* the analyze endpoint: the document is found; without an extraction result
   the answer is 400 *)
EndpointStart ==
    /\ tasks.api.pc = "api_start"
    /\ IF extraction_results = <<>>
       THEN tasks' = [tasks EXCEPT !.api.pc = "api_done", !.api.response = 400]
       ELSE tasks' = [tasks EXCEPT !.api.pc = "api_analyzing"]
    /\ UNCHANGED <<pipeFrame, storeVars, extraction_results, last_write>>

(* validation, aggregation and analyze_risk, then the stored score and level *)
EndpointAnalyze ==
    /\ tasks.api.pc = "api_analyzing"
    /\ \/ \E result \in RiskResultInputs :
             tasks' = [tasks EXCEPT !.api.pc = "api_inserting",
                                    !.api.record = EndpointRiskRecord(result)]
       \/ tasks' = [tasks EXCEPT !.api.pc = "api_done", !.api.response = 500]
    /\ UNCHANGED <<pipeFrame, storeVars, extraction_results, last_write>>

(* risk_analyses.insert_one *)
EndpointInsert ==
    /\ tasks.api.pc = "api_inserting"
    /\ \E ok \in BOOLEAN :
          IF ok
          THEN /\ risk_analyses' = Append(risk_analyses, tasks.api.record)
               /\ tasks' = [tasks EXCEPT !.api.pc = "api_updating"]
          ELSE /\ tasks' = [tasks EXCEPT !.api.pc = "api_done", !.api.response = 500]
               /\ UNCHANGED risk_analyses
    /\ UNCHANGED <<pipeFrame, documents, extraction_results, last_write>>

(* documents.update_one and the response *)
EndpointUpdate ==
    /\ tasks.api.pc = "api_updating"
    /\ \E ok \in BOOLEAN :
          IF ok
          THEN /\ documents' = [documents EXCEPT !.d1 = SetRisk(@, tasks.api.record)]
               /\ last_write' = "api"
               /\ tasks' = [tasks EXCEPT !.api.pc = "api_done", !.api.response = 200]
          ELSE /\ tasks' = [tasks EXCEPT !.api.pc = "api_done", !.api.response = 500]
               /\ UNCHANGED <<documents, last_write>>
    /\ UNCHANGED <<pipeFrame, risk_analyses, extraction_results>>

NextPipeline ==
    \/ ExtractStart \/ ExtractRun \/ ExtractInsert \/ ExtractUpdate
    \/ ExtractAggregate \/ ExtractSchedule
    \/ BackgroundStart \/ BackgroundAnalyze \/ BackgroundInsert
    \/ BackgroundUpdate \/ BackgroundFinish
    \/ EndpointStart \/ EndpointAnalyze \/ EndpointInsert \/ EndpointUpdate

SpecPipeline == InitPipeline /\ [][NextPipeline]_vars

BothAnalysesFinished ==
    /\ pc = "pipeline"
    /\ tasks.bg.pc = "bg_done"
    /\ tasks.api.pc = "api_done"

(* C16: after two concurrent analyses of one document have finished, the
   document's risk_score and risk_level are both those of the analysis that
   updated the document last. *)
C16_LastWriteWinsWhole ==
    (BothAnalysesFinished /\ last_write # "none") =>
        /\ documents.d1.risk_score = tasks[last_write].record.risk_score
        /\ documents.d1.risk_level = tasks[last_write].record.risk_level

(* both analyses updated the document, with different scores and levels, the
   background task last *)
C16_Witness ==
    /\ BothAnalysesFinished
    /\ tasks.bg.updated = "ok"
    /\ tasks.api.response = 200
    /\ last_write = "bg"
    /\ tasks.bg.record.risk_score # tasks.api.record.risk_score
    /\ tasks.bg.record.risk_level # tasks.api.record.risk_level
    /\ documents.d1.risk_level = tasks.bg.record.risk_level

(* C17: the background risk analysis runs only after the extraction result
   and the COMPLETED status have been written, at most once, and whatever
   happens in it the document's status and extracted data stay as written and
   the extraction caller keeps its answer. *)
C17_BackgroundAfterWritesOnceContained ==
    /\ pc = "pipeline" => tasks.bg.runs <= 1
    /\ (pc = "pipeline" /\ tasks.bg.pc # "bg_idle") =>
          /\ tasks.bg.runs = 1
          /\ Len(extraction_results) = 1
          /\ tasks.ext.inserted /\ tasks.ext.updated
          /\ documents.d1.status = "COMPLETED"
          /\ documents.d1.extracted_data = "fields"
          /\ tasks.ext.response = 200

(* the background analysis failed and was logged *)
C17_Witness ==
    /\ pc = "pipeline"
    /\ tasks.bg.pc = "bg_done"
    /\ tasks.bg.logged = 1
    /\ tasks.bg.runs = 1
    /\ documents.d1.status = "COMPLETED"
    /\ tasks.ext.response = 200

----------------------------------------------------------------------------
(* SpecApplication: the documents of one applicant, a bank statement and one
   or two payslips, each sent once to the risk analysis endpoint, in any
   order *)

(* the record the endpoint inserts into risk_analyses, made of the result
   of analyze_risk *)
RiskRecord(doc_id, doc_type, risk, anoms, reasoning, recs, stamp) ==
    [document_id |-> doc_id, user_id |-> "u1", application_id |-> "a1",
     document_type |-> doc_type,
     risk_score |-> risk.risk_score, risk_level |-> risk.risk_level,
     anomalies |-> anoms, llm_reasoning |-> reasoning, recommendations |-> recs,
     analysis_timestamp |-> stamp]

ApplicationDocument ==
    [application_id |-> "a1", user_id |-> "u1", status |-> "COMPLETED",
     risk_score |-> PyNone, risk_level |-> ""]

(* the aggregation of the applicant's documents: the first payslip declares
   70,000 or 40,000, the statement's analytics are stored or fetched *)
ApplicationInputs ==
    {UserDocuments(payslips, <<"b1">>, PayslipFields(net, PyAbsent, PyAbsent),
                   stored, mismatch) :
        payslips \in {<<"p1">>, <<"p1", "p2">>},
        net \in {PyNum(Rupees(70000)), PyNum(Rupees(40000))},
        stored \in {NoStoredAnalytics, BankAnalytics(<<Rupees(50000)>>)},
        mismatch \in BOOLEAN}

(* what analyze_bank_statement gives for the statement b1 *)
ApplicationOutcomeInputs ==
    {outcome \in BankOutcomeInputs : outcome.kind # "raised"}

DocumentsOf(aud) ==
    {aud.documents_by_type.PAYSLIP[i] : i \in 1..Len(aud.documents_by_type.PAYSLIP)}
    \cup {aud.documents_by_type.BANK_STATEMENT[i] :
              i \in 1..Len(aud.documents_by_type.BANK_STATEMENT)}

InitApplication ==
    /\ pc = "application"
    /\ RiskIdle
    /\ transactions = <<>>
    /\ account_info = NoAccountInfo
    /\ customer_profile = NoProfile
    /\ analytics \in ApplicationOutcomeInputs
    /\ bank_anomalies = NoBankAnomalies
    /\ document_type = "UNKNOWN"
    /\ document_id = ""
    /\ all_user_documents \in ApplicationInputs
    /\ cross_doc_anomalies = NoCrossDoc
    /\ documents = [id \in DocumentsOf(all_user_documents) |-> ApplicationDocument]
    /\ risk_analyses = <<>>
    /\ summary = NoSummary
    /\ PipeIdle
    /\ ParseIdle

(* POST /analyze for a document that has no analysis yet, up to the return
   of analyze_risk (its four steps, the collaborator not configured) with the
   user aggregation; a failed analysis is answered with status 500 *)
AnalyzeDocumentRequest ==
    /\ pc = "application"
    /\ \E id \in DOMAIN documents :
          /\ \A i \in 1..Len(risk_analyses) : risk_analyses[i].document_id # id
          /\ document_id' = id
          /\ document_type' = GetDocument(all_user_documents, id).document_type
    /\ LET d == DetectAnomalies(document_type', document_id', analytics,
                                NoBankAnomalies, all_user_documents,
                                validation_result)
       IN  /\ anomalies' = d.anomalies
           /\ risk_score' = CalculateRiskScore(anomalies', validation_result)
           /\ llm_reasoning' = IF NeedsLlmReasoning(anomalies')
                               THEN GetLlmReasoning(llm_configured,
                                                    [kind |-> "raises"], anomalies')
                               ELSE NoReasoning
           /\ recommendations' =
                  GenerateRecommendations(risk_score'.v, llm_reasoning').items
           /\ risk_level' = GetRiskLevel(risk_score'.v)
           /\ pc' = IF d.raised
                       \/ GenerateRecommendations(risk_score'.v, llm_reasoning').raised
                    THEN "application_failed" ELSE "application_analysed"
    /\ UNCHANGED <<validation_result, llm_configured, bankVars, all_user_documents,
                   cross_doc_anomalies, storeVars, summary, pipeVars, parseVars>>

(* the rest of the request: insert_one into risk_analyses and update_one of
   the document *)
StoreDocumentAnalysis ==
    /\ pc = "application_analysed"
    /\ LET record == EndpointRiskRecord([risk_score |-> PyNum(risk_score.v),
                                         risk_level |-> risk_level])
       IN  /\ risk_analyses' =
                  Append(risk_analyses,
                         RiskRecord(document_id, document_type, record, anomalies,
                                    llm_reasoning, recommendations,
                                    Len(risk_analyses) + 1))
           /\ documents' = [documents EXCEPT ![document_id] = SetRisk(@, record)]
    /\ pc' = "application"
    /\ UNCHANGED <<riskVars, bankVars, crossVars, summary, pipeVars, parseVars>>

NextApplication ==
    \/ AnalyzeDocumentRequest
    \/ StoreDocumentAnalysis

SpecApplication == InitApplication /\ [][NextApplication]_vars

(* every document of the application has its analysis *)
AllDocumentsAnalysed ==
    /\ pc = "application"
    /\ \A id \in DOMAIN documents :
          \E i \in 1..Len(risk_analyses) : risk_analyses[i].document_id = id

(* the over_stated_income anomalies of one stored analysis *)
OverStatedIn(analysis) ==
    Cardinality({k \in 1..Len(analysis.anomalies.high_anomalies.items) :
                    analysis.anomalies.high_anomalies.items[k].type = "over_stated_income"})

(* C26: across the risk analyses of all documents of one application that
   has a payslip and a bank statement, each document analysed once, the
   over_stated_income anomaly is created only once for the application, not
   once per document analysis *)
C26_OverStatedIncomeOncePerApplication ==
    AllDocumentsAnalysed =>
        SumSeq([i \in 1..Len(risk_analyses) |-> OverStatedIn(risk_analyses[i])]) <= 1

(* what holds instead: one analysis never holds the anomaly twice, and every
   analysis of a payslip or a bank statement holds it when the first payslip
   declares more than the statement's first salary credit *)
OverStatedIncomeOncePerAnalysis ==
    \A i \in 1..Len(risk_analyses) :
        /\ OverStatedIn(risk_analyses[i]) <= 1
        /\ OverStatedIn(risk_analyses[i]) = OverStatedIn(risk_analyses[1])

(* the payslip and the statement were analysed and both analyses hold the
   anomaly *)
OverStatedIncomeTwice ==
    /\ AllDocumentsAnalysed
    /\ Len(risk_analyses) = 2
    /\ OverStatedIn(risk_analyses[1]) = 1
    /\ OverStatedIn(risk_analyses[2]) = 1

----------------------------------------------------------------------------
(* SpecInstability: the analysis of statements whose salary credits differ
   little or much, from the fetch to the conversion of the fraud and income
   analyses into the anomaly collection *)

SalaryLowFeb ==
    Txn("s9", Date(2025, 2, 5), SalaryText, "CREDIT",
        PyNum(Rupees(20000)), PyNone, PyNum(Rupees(80000)))
SalaryHighMar ==
    Txn("s10", Date(2025, 3, 5), SalaryText, "CREDIT",
        PyNum(Rupees(100000)), PyNone, PyNum(Rupees(180000)))

InstabilityTxnPool == {SalaryJan, SalaryFeb, SalaryMar, SalaryLowFeb, SalaryHighMar}

InitInstability ==
    /\ pc = "bank_start"
    /\ RiskIdle
    /\ AuxIdle
    /\ transactions \in SeqOfAtMost(InstabilityTxnPool, MaxTxns)
    /\ account_info \in {NoAccountInfo,
                         [NoAccountInfo EXCEPT
                             !.statement_period_from = Date(2025, 1, 1),
                             !.statement_period_to = Date(2025, 3, 31)]}
    /\ customer_profile = NoProfile
    /\ analytics = NoAnalytics
    /\ bank_anomalies = NoBankAnomalies

(* analyze_bank_statement, the call of _detect_fraud_anomalies with the
   income analysis made before it *)
DetectFraudOfIncomeStep ==
    /\ pc = "income_analysed"
    /\ LET fraud == DetectFraudAnomalies(
                        analytics.transactions,
                        analytics.income_analysis.salary_consistency_score,
                        account_info.statement_period_from, account_info)
       IN  /\ analytics' = [kind |-> "fraud_analysed",
                            deduplicated |-> analytics.deduplicated,
                            transactions |-> analytics.transactions,
                            income_analysis |-> analytics.income_analysis,
                            fraud_analysis |-> fraud]
           /\ pc' = IF fraud.raised THEN "raised_fraud" ELSE "fraud_analysed"
    /\ UNCHANGED <<riskVars, auxVars, transactions, account_info, customer_profile,
                   bank_anomalies>>

(* _convert_bank_analytics_to_anomalies over the fraud and income analyses:
   the fraud anomalies, the income instability check, the salary gaps *)
ConvertFraudAndIncomeStep ==
    /\ pc = "fraud_analysed"
    /\ LET converted == ConvertFraudAnomalies(analytics.fraud_analysis.anomalies)
       IN  bank_anomalies' =
               [converted EXCEPT
                   !.medium = @ \o ConvertIncomeInstability(analytics.income_analysis)
                                \o ConvertSalaryGaps(analytics.income_analysis)]
    /\ pc' = "instability_converted"
    /\ UNCHANGED <<riskVars, auxVars, transactions, account_info, customer_profile,
                   analytics>>

NextInstability ==
    \/ FetchTransactions
    \/ AnalyzeIncomeStep
    \/ DetectFraudOfIncomeStep
    \/ ConvertFraudAndIncomeStep

SpecInstability == InitInstability /\ [][NextInstability]_vars

InstabilityConverted == pc = "instability_converted"

(* C27: a single bank-statement risk analysis puts at most one
   income_instability anomaly into the anomaly collection, however many
   instability conditions hold (consistency score below 50, salary variation
   above the threshold), so income instability adds at most one medium
   weight to the score *)
C27_AtMostOneIncomeInstability ==
    InstabilityConverted =>
        CountType(bank_anomalies.medium, "income_instability") <= 1

(* what holds instead: one anomaly from the fraud analysis when the score is
   below 50, and one more from the conversion when the score is below 50 or
   the variation is high *)
IncomeInstabilityPerCondition ==
    InstabilityConverted =>
        LET income == analytics.income_analysis
            below == income.salary_consistency_score.v < InstabilityFloor
            varied == HighSalaryVariation(income.salary_amounts)
        IN  CountType(bank_anomalies.medium, "income_instability") =
                (IF below THEN 1 ELSE 0) + (IF below \/ varied THEN 1 ELSE 0)

(* salaries of 50,000 and 20,000: a score below 50 and two anomalies *)
IncomeInstabilityTwice ==
    /\ InstabilityConverted
    /\ analytics.income_analysis.salary_amounts = <<Rupees(50000), Rupees(20000)>>
    /\ CountType(bank_anomalies.medium, "income_instability") = 2

(* salaries of 50,000 and 100,000: a score of 52.86, a variation of 100 per
   cent and one anomaly *)
IncomeInstabilityByVariationOnly ==
    /\ InstabilityConverted
    /\ analytics.income_analysis.salary_amounts = <<Rupees(50000), Rupees(100000)>>
    /\ analytics.income_analysis.salary_consistency_score = PyNum(5286)
    /\ CountType(bank_anomalies.medium, "income_instability") = 1

----------------------------------------------------------------------------
(* SpecStatements: two uploaded statements, January (d1) and February (d2),
   each of one credit and one debit and each reconciling on its own, and the
   fraud analysis of one of the two documents *)

(* a row of bank_transaction_record as the import stores it: the transaction
   with the document, the account and the period of its statement *)
StatementRow(id, date, type, credit, debit, balance, doc, account, from, to) ==
    [transaction_id |-> id, transaction_date |-> date,
     description |-> <<"N","E","F","T">>, transaction_type |-> type,
     credit_amount |-> credit, debit_amount |-> debit,
     balance_after_transaction |-> PyNum(balance),
     document_id |-> doc, account_number |-> account,
     statement_period_from |-> from, statement_period_to |-> to]

(* the rows of a statement that opens with opening, in date order *)
StatementRows(doc, account, month, opening, credit, debit) ==
    << StatementRow(<<doc, "c">>, Date(2025, month, 10), "CREDIT",
                    PyNum(credit), PyNone, opening + credit,
                    doc, account, Date(2025, month, 1), Date(2025, month, 28)),
       StatementRow(<<doc, "d">>, Date(2025, month, 20), "DEBIT",
                    PyNone, PyNum(debit), opening + credit - debit,
                    doc, account, Date(2025, month, 1), Date(2025, month, 28)) >>

(* the header balances of an extraction result, when the extraction found
   them *)
StatementHeader(found, opening, closing) ==
    IF found THEN [opening_balance |-> PyNum(opening), closing_balance |-> PyNum(closing)]
    ELSE [opening_balance |-> PyNone, closing_balance |-> PyNone]

JanuaryOpening == Rupees(10000)

InitStatements ==
    /\ pc = "bank_start"
    /\ RiskIdle
    /\ \E c1 \in {Rupees(5000), Rupees(6000)}, d1 \in {Rupees(3000), Rupees(2000)},
          c2 \in {Rupees(4000), Rupees(8000)}, d2 \in {Rupees(1000), Rupees(7000)},
          account2 \in {"a1", "a2"}, h1 \in BOOLEAN, h2 \in BOOLEAN :
          LET closing1 == JanuaryOpening + c1 - d1
          IN  /\ transactions =
                    StatementRows("d1", "a1", 1, JanuaryOpening, c1, d1)
                    \o StatementRows("d2", account2, 2, closing1, c2, d2)
              /\ extraction_results =
                    [d1 |-> StatementHeader(h1, JanuaryOpening, closing1),
                     d2 |-> StatementHeader(h2, closing1, closing1 + c2 - d2)]
    /\ document_id \in {"d1", "d2"}
    /\ document_type = "BANK_STATEMENT"
    /\ all_user_documents = NoDocuments
    /\ cross_doc_anomalies = NoCrossDoc
    /\ account_info = NoAccountInfo
    /\ customer_profile = NoProfile
    /\ analytics = NoAnalytics
    /\ bank_anomalies = NoBankAnomalies
    /\ StoreIdle
    /\ summary = NoSummary
    /\ tasks = NoTasks
    /\ last_write = "none"
    /\ ParseIdle

(* analyze_bank_statement(document_id), the fetch and the account info: the
   rows of the document, replaced by all rows of their account when those are
   more; the period of the first row; the header balances of the document's
   extraction result *)
FetchAccountTransactions ==
    /\ pc = "bank_start"
    /\ LET of_document == SelectSeq(transactions,
                                    LAMBDA row : row.document_id = document_id)
           of_account ==
               IF of_document = <<>> THEN <<>>
               ELSE SelectSeq(transactions,
                              LAMBDA row : row.account_number
                                              = of_document[1].account_number)
           fetched == IF Len(of_account) > Len(of_document) THEN of_account
                      ELSE of_document
       IN  IF fetched = <<>>
           THEN /\ analytics' = [kind |-> "error"]
                /\ pc' = "no_transactions"
                /\ UNCHANGED account_info
           ELSE /\ analytics' = [kind |-> "fetched", deduplicated |-> FALSE,
                                 transactions |-> fetched]
                /\ account_info' =
                      [statement_period_from |-> fetched[1].statement_period_from,
                       statement_period_to |-> fetched[1].statement_period_to,
                       opening_balance |-> extraction_results[document_id].opening_balance,
                       closing_balance |-> extraction_results[document_id].closing_balance]
                /\ pc' = "fetched"
    /\ UNCHANGED <<riskVars, auxVars, transactions, customer_profile, bank_anomalies>>

NextStatements ==
    \/ FetchAccountTransactions
    \/ DetectFraudAnomaliesStep
    \/ ConvertFraudAnomaliesStep

SpecStatements == InitStatements /\ [][NextStatements]_vars

(* both statements belong to one account *)
StatementsOfOneAccount ==
    \A i \in 1..Len(transactions) : transactions[i].account_number = "a1"

SequenceErrorReported ==
    CountType(bank_anomalies.critical, "transaction_sequence_error") > 0

(* C29: when an account's transactions span two uploaded statements, each
   of which reconciles on its own, analysing either statement's document
   yields no transaction_sequence_error anomaly: the period filter and the
   opening and closing balances used for reconciliation come from the same
   statement *)
C29_SpanningStatementsReconcile ==
    (pc = "converted" /\ StatementsOfOneAccount) =>
        /\ ~SequenceErrorReported
        /\ account_info.statement_period_from.m
              = (IF document_id = "d1" THEN 1 ELSE 2)

(* what holds instead: the period is the one of the account's earliest row,
   the balances are those of the analysed document, and the error is
   reported only for the later statement of a spanning account whose header
   balances were extracted *)
SequenceErrorForLaterStatement ==
    (pc = "converted" /\ SequenceErrorReported) =>
        /\ document_id = "d2"
        /\ StatementsOfOneAccount
        /\ extraction_results.d2.opening_balance # PyNone

(* the February statement of a spanning account was analysed: January's rows
   were reconciled against February's header balances *)
LaterStatementFlagged ==
    /\ pc = "converted"
    /\ document_id = "d2"
    /\ StatementsOfOneAccount
    /\ account_info.statement_period_from = Date(2025, 1, 1)
    /\ account_info.opening_balance = extraction_results.d2.opening_balance
    /\ SequenceErrorReported

====
